---- MODULE Spec2Model ----
(***************************************************************************)
(* Model of the TypeScript ANSI-to-HTML converter (class Converter and     *)
(* the SAUCE helpers of converter.ts, colorToHex of colors.ts, the table   *)
(* of cp437.ts).  Characters are their UTF-16 code units (integers), and   *)
(* strings are sequences of code units, so that escaping, decoding and     *)
(* formatting are computed and not assumed.                                *)
(***************************************************************************)
EXTENDS Integers, Sequences, FiniteSets, TLC

(***************************************************************************)
(* Character codes the converter compares against.                         *)
(***************************************************************************)
ESC == 27
SUB == 26
LF == 10
CR == 13
CTRL_A == 1
PIPE == 124
REPLACEMENT == 65533

(***************************************************************************)
(* cp437.ts: CP437_TO_UNICODE, byte value -> Unicode code unit.            *)
(***************************************************************************)
CP437_TO_UNICODE ==
  <<
     0, 9786, 9787, 9829, 9830, 9827, 9824, 8226, 9688, 9675, 9689, 9794, 9792, 9834, 9835, 9788,
     9658, 9668, 8597, 8252, 182, 167, 9644, 8616, 8593, 8595, 8594, 8592, 8735, 8596, 9650, 9660,
     32, 33, 34, 35, 36, 37, 38, 39, 40, 41, 42, 43, 44, 45, 46, 47,
     48, 49, 50, 51, 52, 53, 54, 55, 56, 57, 58, 59, 60, 61, 62, 63,
     64, 65, 66, 67, 68, 69, 70, 71, 72, 73, 74, 75, 76, 77, 78, 79,
     80, 81, 82, 83, 84, 85, 86, 87, 88, 89, 90, 91, 92, 93, 94, 95,
     96, 97, 98, 99, 100, 101, 102, 103, 104, 105, 106, 107, 108, 109, 110, 111,
     112, 113, 114, 115, 116, 117, 118, 119, 120, 121, 122, 123, 124, 125, 126, 8962,
     199, 252, 233, 226, 228, 224, 229, 231, 234, 235, 232, 239, 238, 236, 196, 197,
     201, 230, 198, 244, 246, 242, 251, 249, 255, 214, 220, 162, 163, 165, 8359, 402,
     225, 237, 243, 250, 241, 209, 170, 186, 191, 8976, 172, 189, 188, 161, 171, 187,
     9617, 9618, 9619, 9474, 9508, 9569, 9570, 9558, 9557, 9571, 9553, 9559, 9565, 9564, 9563, 9488,
     9492, 9524, 9516, 9500, 9472, 9532, 9566, 9567, 9562, 9556, 9577, 9574, 9568, 9552, 9580, 9575,
     9576, 9572, 9573, 9561, 9560, 9554, 9555, 9579, 9578, 9496, 9484, 9608, 9604, 9612, 9616, 9600,
     945, 223, 915, 960, 931, 963, 181, 964, 934, 920, 937, 948, 8734, 966, 949, 8745,
     8801, 177, 8805, 8804, 8992, 8993, 247, 8776, 176, 8729, 183, 8730, 8319, 178, 9632, 160
  >>

\* CP437_TO_UNICODE[code], or -1 where the JavaScript lookup is undefined
Cp437Lookup(code) ==
  IF code \in 0..255 THEN CP437_TO_UNICODE[code + 1] ELSE -1

(***************************************************************************)
(* String helpers (sequences of code units).                               *)
(***************************************************************************)
IsDigit(ch) == ch >= 48 /\ ch <= 57

\* the 1-based window s[a..b] clipped to the string, like String.slice
Slice(s, a, b) ==
  IF a > b \/ a > Len(s) THEN << >>
  ELSE SubSeq(s, (IF a < 1 THEN 1 ELSE a), (IF b > Len(s) THEN Len(s) ELSE b))

\* does pat occur in s at 1-based position p
MatchAt(s, pat, p) ==
  /\ p >= 1
  /\ p + Len(pat) - 1 <= Len(s)
  /\ \A k \in 1..Len(pat) : s[p + k - 1] = pat[k]

\* String.lastIndexOf as a 0-based index, -1 when absent
LastIndexOf(s, pat) ==
  LET hits == { p \in 1..Len(s) : MatchAt(s, pat, p) }
  IN  IF hits = {} THEN -1
      ELSE (CHOOSE p \in hits : \A q \in hits : q <= p) - 1

\* a variant that finds the last SUB
IndexOfSubLast(s) ==
  LET hits == { p \in 1..Len(s) : s[p] = SUB }
  IN  IF hits = {} THEN -1
      ELSE (CHOOSE p \in hits : \A q \in hits : q <= p) - 1

\* index of the first SUB as a 0-based index, -1 when absent
IndexOfSub(s) ==
  LET hits == { p \in 1..Len(s) : s[p] = SUB }
  IN  IF hits = {} THEN -1
      ELSE (CHOOSE p \in hits : \A q \in hits : p <= q) - 1

\* decimal digits of a non-negative number, as template literals print it
RECURSIVE NumToStr(_)
NumToStr(n) ==
  IF n < 10 THEN << 48 + n >>
  ELSE NumToStr(n \div 10) \o << 48 + (n % 10) >>

\* parseInt(s, 10): the value of the leading run of digits, -1 for NaN
RECURSIVE DigitsValue(_, _)
DigitsValue(s, acc) ==
  IF s = << >> \/ ~IsDigit(Head(s)) THEN acc
  ELSE DigitsValue(Tail(s), acc * 10 + (Head(s) - 48))

ParseInt(s) ==
  IF s = << >> \/ ~IsDigit(Head(s)) THEN -1 ELSE DigitsValue(s, 0)

\* String.split(';')
RECURSIVE SplitSemi(_, _)
SplitSemi(s, cur) ==
  IF s = << >> THEN << cur >>
  ELSE IF Head(s) = 59 THEN << cur >> \o SplitSemi(Tail(s), << >>)
  ELSE SplitSemi(Tail(s), Append(cur, Head(s)))

\* bit 3 of a 4-bit colour value: x & 0x08, x | 0x08 and x & 0x07
Bit3(x) == IF (x \div 8) % 2 = 1 THEN 8 ELSE 0
SetBit3(x) == IF Bit3(x) = 8 THEN x ELSE x + 8
ClearBit3(x) == x % 8

(***************************************************************************)
(* colors.ts                                                               *)
(***************************************************************************)
colorToHex(color) ==
  IF color >= 0 /\ color <= 9 THEN 48 + color
  ELSE IF color >= 10 /\ color <= 15 THEN 97 + color - 10
  ELSE 48

(***************************************************************************)
(* converter.ts: colour remaps                                             *)
(***************************************************************************)
ansiToCga(ansiColor) ==
  CASE ansiColor = 0 -> 0
    [] ansiColor = 1 -> 4
    [] ansiColor = 2 -> 2
    [] ansiColor = 3 -> 6
    [] ansiColor = 4 -> 1
    [] ansiColor = 5 -> 5
    [] ansiColor = 6 -> 3
    [] ansiColor = 7 -> 7
    [] OTHER -> 7

ansiBrightToCga(ansiColor) ==
  CASE ansiColor = 0 -> 8
    [] ansiColor = 1 -> 12
    [] ansiColor = 2 -> 10
    [] ansiColor = 3 -> 14
    [] ansiColor = 4 -> 9
    [] ansiColor = 5 -> 13
    [] ansiColor = 6 -> 11
    [] ansiColor = 7 -> 15
    [] OTHER -> 15

(***************************************************************************)
(* converter.ts: class Converter.  A converter is a record c of the        *)
(* private fields; each method is an operator from the converter before    *)
(* the call to the converter after it.                                     *)
(***************************************************************************)
PreOpen == << 60, 112, 114, 101, 32, 99, 108, 97, 115, 115, 61, 34, 97, 110, 115, 105, 34, 62 >>
PreClose == << 60, 47, 112, 114, 101, 62 >>

\* the fields of a new Converter
NewConverter ==
  [ foreground |-> 7, background |-> 0, output |-> << >>, currentColumn |-> 0,
    lineHasAnsi |-> FALSE, savePositionActive |-> FALSE, parseState |-> "Normal",
    csiParams |-> << >>, renegadeFirstDigit |-> 0 ]

\* `<ans-KF>`
OpenTagText(bg, fg) ==
  << 60, 97, 110, 115, 45, colorToHex(bg), colorToHex(fg), 62 >>

\* `</ans-KF>`
CloseTagText(bg, fg) ==
  << 60, 47, 97, 110, 115, 45, colorToHex(bg), colorToHex(fg), 62 >>

openTag(c) ==
  [c EXCEPT !.output = @ \o OpenTagText(c.background, c.foreground)]

\* closeTag with the two digits in the wrong order
closeTagSwapped(c) ==
  [c EXCEPT !.output = @ \o << 60, 47, 97, 110, 115, 45, colorToHex(c.foreground),
                               colorToHex(c.background), 62 >>]

closeTag(c) ==
  [c EXCEPT !.output = @ \o CloseTagText(c.background, c.foreground)]

\* a variant that opens the new tag without closing the old one
switchColorNoClose(c, newBg, newFg) ==
  IF newBg # c.background \/ newFg # c.foreground
  THEN openTag([c EXCEPT !.background = newBg, !.foreground = newFg])
  ELSE c

\* a variant that changes the colour of a suppressed region without tags
switchColorHidden(c, newBg, newFg) ==
  IF newBg # c.background \/ newFg # c.foreground
  THEN IF c.savePositionActive
       THEN [c EXCEPT !.background = newBg, !.foreground = newFg]
       ELSE openTag([closeTag(c) EXCEPT !.background = newBg, !.foreground = newFg])
  ELSE c

switchColor(c, newBg, newFg) ==
  IF newBg # c.background \/ newFg # c.foreground
  THEN openTag([closeTag(c) EXCEPT !.background = newBg, !.foreground = newFg])
  ELSE c

\* a variant that lets the apostrophe through
EscapeCharRawApos(ch) ==
  CASE ch = 60 -> << 38, 108, 116, 59 >>
    [] ch = 62 -> << 38, 103, 116, 59 >>
    [] ch = 38 -> << 38, 97, 109, 112, 59 >>
    [] ch = 34 -> << 38, 113, 117, 111, 116, 59 >>
    [] OTHER -> << ch >>

\* the text emitChar appends for a character that is neither LF nor CR
EscapeChar(ch) ==
  CASE ch = 60 -> << 38, 108, 116, 59 >>
    [] ch = 62 -> << 38, 103, 116, 59 >>
    [] ch = 38 -> << 38, 97, 109, 112, 59 >>
    [] ch = 34 -> << 38, 113, 117, 111, 116, 59 >>
    [] ch = 39 -> << 38, 97, 112, 111, 115, 59 >>
    [] OTHER -> << ch >>

\* a variant that wraps one column late
emitCharWrapLate(c, ch) ==
  IF c.savePositionActive THEN c
  ELSE
    LET w == IF c.lineHasAnsi /\ c.currentColumn > 80 /\ ch # LF
             THEN [c EXCEPT !.output = Append(@, LF), !.currentColumn = 0]
             ELSE c
    IN  CASE ch = LF -> [w EXCEPT !.output = Append(@, LF), !.currentColumn = 0,
                                  !.lineHasAnsi = FALSE]
          [] ch = CR -> w
          [] OTHER -> [w EXCEPT !.output = @ \o EscapeChar(ch),
                                !.currentColumn = @ + 1]

\* a variant that wraps whether or not the line has seen an escape sequence
emitCharWrapAlways(c, ch) ==
  IF c.savePositionActive THEN c
  ELSE
    LET w == IF c.currentColumn >= 80 /\ ch # LF
             THEN [c EXCEPT !.output = Append(@, LF), !.currentColumn = 0]
             ELSE c
    IN  CASE ch = LF -> [w EXCEPT !.output = Append(@, LF), !.currentColumn = 0,
                                  !.lineHasAnsi = FALSE]
          [] ch = CR -> w
          [] OTHER -> [w EXCEPT !.output = @ \o EscapeChar(ch),
                                !.currentColumn = @ + 1]

\* a variant that emits while save-position suppression is active
emitCharNoSuppress(c, ch) ==
  LET w == IF c.lineHasAnsi /\ c.currentColumn >= 80 /\ ch # LF
           THEN [c EXCEPT !.output = Append(@, LF), !.currentColumn = 0]
           ELSE c
  IN  CASE ch = LF -> [w EXCEPT !.output = Append(@, LF), !.currentColumn = 0,
                                !.lineHasAnsi = FALSE]
        [] ch = CR -> w
        [] OTHER -> [w EXCEPT !.output = @ \o EscapeChar(ch),
                              !.currentColumn = @ + 1]

\* a variant that writes a line feed as CR LF
emitCharCrLf(c, ch) ==
  IF c.savePositionActive THEN c
  ELSE
    LET w == IF c.lineHasAnsi /\ c.currentColumn >= 80 /\ ch # LF
             THEN [c EXCEPT !.output = Append(@, LF), !.currentColumn = 0]
             ELSE c
    IN  CASE ch = LF -> [w EXCEPT !.output = @ \o << CR, LF >>, !.currentColumn = 0,
                                  !.lineHasAnsi = FALSE]
          [] ch = CR -> w
          [] OTHER -> [w EXCEPT !.output = @ \o EscapeChar(ch),
                                !.currentColumn = @ + 1]

\* a variant whose line feed leaves the line-has-escape flag as it is
emitCharLfKeepsFlag(c, ch) ==
  IF c.savePositionActive THEN c
  ELSE
    LET w == IF c.lineHasAnsi /\ c.currentColumn >= 80 /\ ch # LF
             THEN [c EXCEPT !.output = Append(@, LF), !.currentColumn = 0]
             ELSE c
    IN  CASE ch = LF -> [w EXCEPT !.output = Append(@, LF), !.currentColumn = 0]
          [] ch = CR -> w
          [] OTHER -> [w EXCEPT !.output = @ \o EscapeChar(ch),
                                !.currentColumn = @ + 1]

\* a variant that discards suppressed text but still counts its columns
emitCharCountsHidden(c, ch) ==
  IF c.savePositionActive
  THEN CASE ch = LF -> [c EXCEPT !.currentColumn = 0, !.lineHasAnsi = FALSE]
         [] ch = CR -> c
         [] OTHER -> [c EXCEPT !.currentColumn = @ + 1]
  ELSE
    LET w == IF c.lineHasAnsi /\ c.currentColumn >= 80 /\ ch # LF
             THEN [c EXCEPT !.output = Append(@, LF), !.currentColumn = 0]
             ELSE c
    IN  CASE ch = LF -> [w EXCEPT !.output = Append(@, LF), !.currentColumn = 0,
                                  !.lineHasAnsi = FALSE]
          [] ch = CR -> w
          [] OTHER -> [w EXCEPT !.output = @ \o EscapeChar(ch),
                                !.currentColumn = @ + 1]

\* a variant whose soft wrap clears the line-has-escape flag, as a line feed
\* of the input does
emitCharWrapClearsFlag(c, ch) ==
  IF c.savePositionActive THEN c
  ELSE
    LET w == IF c.lineHasAnsi /\ c.currentColumn >= 80 /\ ch # LF
             THEN [c EXCEPT !.output = Append(@, LF), !.currentColumn = 0,
                            !.lineHasAnsi = FALSE]
             ELSE c
    IN  CASE ch = LF -> [w EXCEPT !.output = Append(@, LF), !.currentColumn = 0,
                                  !.lineHasAnsi = FALSE]
          [] ch = CR -> w
          [] OTHER -> [w EXCEPT !.output = @ \o EscapeChar(ch),
                                !.currentColumn = @ + 1]

emitChar(c, ch) ==
  IF c.savePositionActive THEN c
  ELSE
    LET w == IF c.lineHasAnsi /\ c.currentColumn >= 80 /\ ch # LF
             THEN [c EXCEPT !.output = Append(@, LF), !.currentColumn = 0]
             ELSE c
    IN  CASE ch = LF -> [w EXCEPT !.output = Append(@, LF), !.currentColumn = 0,
                                  !.lineHasAnsi = FALSE]
          [] ch = CR -> w
          [] OTHER -> [w EXCEPT !.output = @ \o EscapeChar(ch),
                                !.currentColumn = @ + 1]

\* a variant whose code 0 resets the foreground only
SgrCodeResetFgOnly(code, fb) ==
  LET newFg == fb[1]
      newBg == fb[2]
  IN  CASE code = 0 -> << 7, newBg >>
        [] code = 1 -> << SetBit3(newFg), newBg >>
        [] code = 2 \/ code = 22 -> << ClearBit3(newFg), newBg >>
        [] code = 5 \/ code = 6 -> << newFg, SetBit3(newBg) >>
        [] code = 25 -> << newFg, ClearBit3(newBg) >>
        [] code = 7 -> << newBg, newFg >>
        [] code >= 30 /\ code <= 37 ->
             << Bit3(newFg) + ansiToCga(code - 30), newBg >>
        [] code = 39 -> << 7, newBg >>
        [] code >= 40 /\ code <= 47 ->
             << newFg, Bit3(newBg) + ansiToCga(code - 40) >>
        [] code = 49 -> << newFg, 0 >>
        [] code >= 90 /\ code <= 97 -> << ansiBrightToCga(code - 90), newBg >>
        [] code >= 100 /\ code <= 107 -> << newFg, ansiBrightToCga(code - 100) >>
        [] OTHER -> fb

\* a variant whose codes 30-37 and 40-47 overwrite the intensity bit
SgrCodeHueOverwrites(code, fb) ==
  LET newFg == fb[1]
      newBg == fb[2]
  IN  CASE code = 0 -> << 7, 0 >>
        [] code = 1 -> << SetBit3(newFg), newBg >>
        [] code = 2 \/ code = 22 -> << ClearBit3(newFg), newBg >>
        [] code = 5 \/ code = 6 -> << newFg, SetBit3(newBg) >>
        [] code = 25 -> << newFg, ClearBit3(newBg) >>
        [] code = 7 -> << newBg, newFg >>
        [] code >= 30 /\ code <= 37 ->
             << ansiToCga(code - 30), newBg >>
        [] code = 39 -> << 7, newBg >>
        [] code >= 40 /\ code <= 47 ->
             << newFg, ansiToCga(code - 40) >>
        [] code = 49 -> << newFg, 0 >>
        [] code >= 90 /\ code <= 97 -> << ansiBrightToCga(code - 90), newBg >>
        [] code >= 100 /\ code <= 107 -> << newFg, ansiBrightToCga(code - 100) >>
        [] OTHER -> fb

\* a variant whose bold adds 8 to the foreground instead of setting bit 3
SgrCodeBoldAdds(code, fb) ==
  LET newFg == fb[1]
      newBg == fb[2]
  IN  CASE code = 0 -> << 7, 0 >>
        [] code = 1 -> << newFg + 8, newBg >>
        [] code = 2 \/ code = 22 -> << ClearBit3(newFg), newBg >>
        [] code = 5 \/ code = 6 -> << newFg, SetBit3(newBg) >>
        [] code = 25 -> << newFg, ClearBit3(newBg) >>
        [] code = 7 -> << newBg, newFg >>
        [] code >= 30 /\ code <= 37 ->
             << Bit3(newFg) + ansiToCga(code - 30), newBg >>
        [] code = 39 -> << 7, newBg >>
        [] code >= 40 /\ code <= 47 ->
             << newFg, Bit3(newBg) + ansiToCga(code - 40) >>
        [] code = 49 -> << newFg, 0 >>
        [] code >= 90 /\ code <= 97 -> << ansiBrightToCga(code - 90), newBg >>
        [] code >= 100 /\ code <= 107 -> << newFg, ansiBrightToCga(code - 100) >>
        [] OTHER -> fb

\* one SGR code applied to the working copy << newFg, newBg >>
SgrCode(code, fb) ==
  LET newFg == fb[1]
      newBg == fb[2]
  IN  CASE code = 0 -> << 7, 0 >>
        [] code = 1 -> << SetBit3(newFg), newBg >>
        [] code = 2 \/ code = 22 -> << ClearBit3(newFg), newBg >>
        [] code = 5 \/ code = 6 -> << newFg, SetBit3(newBg) >>
        [] code = 25 -> << newFg, ClearBit3(newBg) >>
        [] code = 7 -> << newBg, newFg >>
        [] code >= 30 /\ code <= 37 ->
             << Bit3(newFg) + ansiToCga(code - 30), newBg >>
        [] code = 39 -> << 7, newBg >>
        [] code >= 40 /\ code <= 47 ->
             << newFg, Bit3(newBg) + ansiToCga(code - 40) >>
        [] code = 49 -> << newFg, 0 >>
        [] code >= 90 /\ code <= 97 -> << ansiBrightToCga(code - 90), newBg >>
        [] code >= 100 /\ code <= 107 -> << newFg, ansiBrightToCga(code - 100) >>
        [] OTHER -> fb

\* a variant that applies the codes right to left
RECURSIVE SgrCodesRightToLeft(_, _)
SgrCodesRightToLeft(codes, fb) ==
  IF codes = << >> THEN fb
  ELSE SgrCode(Head(codes), SgrCodesRightToLeft(Tail(codes), fb))

RECURSIVE SgrCodes(_, _)
SgrCodes(codes, fb) ==
  IF codes = << >> THEN fb ELSE SgrCodes(Tail(codes), SgrCode(Head(codes), fb))

\* params.split(';').map(s => parseInt(s, 10) || 0), [0] for the empty string
SgrParamCodes(params) ==
  IF params = << >> THEN << 0 >>
  ELSE LET parts == SplitSemi(params, << >>)
       IN  [ k \in 1..Len(parts) |->
               IF ParseInt(parts[k]) = -1 THEN 0 ELSE ParseInt(parts[k]) ]

processSgr(c, params) ==
  LET fb == SgrCodes(SgrParamCodes(params), << c.foreground, c.background >>)
  IN  switchColor(c, fb[2], fb[1])

\* n copies of a space through emitChar
RECURSIVE EmitSpaces(_, _)
EmitSpaces(c, n) ==
  IF n <= 0 THEN c ELSE EmitSpaces(emitChar(c, 32), n - 1)

\* a variant whose cursor forward emits nothing for the parameter 0
processCsiZeroForward(c, params, command) ==
  LET d == [c EXCEPT !.lineHasAnsi = TRUE]
  IN  CASE command = 109 -> processSgr(d, params)
        [] command = 74 ->
             LET n == IF ParseInt(params) = -1 THEN 0 ELSE ParseInt(params)
             IN  IF n = 2 \/ n = 3
                 THEN emitChar(emitChar(emitChar(d, LF), LF), LF)
                 ELSE d
        [] command = 115 -> [d EXCEPT !.savePositionActive = TRUE]
        [] command = 117 -> [d EXCEPT !.savePositionActive = FALSE]
        [] command = 67 ->
             LET p == ParseInt(params)
                 n == IF p = -1 THEN 1 ELSE p
             IN  EmitSpaces(d, n)
        [] OTHER -> d

\* a variant whose ignored commands do not mark the line
processCsiIgnoredUnmarked(c, params, command) ==
  LET d == [c EXCEPT !.lineHasAnsi = TRUE]
  IN  CASE command = 109 -> processSgr(d, params)
        [] command = 74 ->
             LET n == IF ParseInt(params) = -1 THEN 0 ELSE ParseInt(params)
             IN  IF n = 2 \/ n = 3
                 THEN emitChar(emitChar(emitChar(d, LF), LF), LF)
                 ELSE d
        [] command = 115 -> [d EXCEPT !.savePositionActive = TRUE]
        [] command = 117 -> [d EXCEPT !.savePositionActive = FALSE]
        [] command = 67 ->
             LET p == ParseInt(params)
                 n == IF p = -1 \/ p = 0 THEN 1 ELSE p
             IN  EmitSpaces(d, IF n < 1 THEN 1 ELSE n)
        [] OTHER -> c

processCsi(c, params, command) ==
  LET d == [c EXCEPT !.lineHasAnsi = TRUE]
  IN  CASE command = 109 -> processSgr(d, params)
        [] command = 74 ->
             LET n == IF ParseInt(params) = -1 THEN 0 ELSE ParseInt(params)
             IN  IF n = 2 \/ n = 3
                 THEN emitChar(emitChar(emitChar(d, LF), LF), LF)
                 ELSE d
        [] command = 115 -> [d EXCEPT !.savePositionActive = TRUE]
        [] command = 117 -> [d EXCEPT !.savePositionActive = FALSE]
        [] command = 67 ->
             LET p == ParseInt(params)
                 n == IF p = -1 \/ p = 0 THEN 1 ELSE p
             IN  EmitSpaces(d, IF n < 1 THEN 1 ELSE n)
        [] OTHER -> d

\* a variant whose uppercase letters set the background
SynchronetEffectUpperBg(code, fb) ==
  LET newFg == fb[1]
      newBg == fb[2]
  IN  CASE code = 107 -> << 0, newBg >>
        [] code = 98 -> << 1, newBg >>
        [] code = 103 -> << 2, newBg >>
        [] code = 99 -> << 3, newBg >>
        [] code = 114 -> << 4, newBg >>
        [] code = 109 -> << 5, newBg >>
        [] code = 121 -> << 6, newBg >>
        [] code = 119 -> << 7, newBg >>
        [] code = 75 -> << newFg, 0 >>
        [] code = 66 -> << newFg, 1 >>
        [] code = 71 -> << newFg, 2 >>
        [] code = 67 -> << newFg, 3 >>
        [] code = 82 -> << newFg, 4 >>
        [] code = 77 -> << newFg, 5 >>
        [] code = 89 -> << newFg, 6 >>
        [] code = 87 -> << newFg, 7 >>
        [] code >= 48 /\ code <= 55 -> << newFg, code - 48 >>
        [] code = 72 \/ code = 104 -> << SetBit3(newFg), newBg >>
        [] code = 73 \/ code = 105 -> << newFg, SetBit3(newBg) >>
        [] code = 78 \/ code = 110 -> << 7, 0 >>
        [] code = 45 -> << ClearBit3(newFg), newBg >>
        [] code = 95 -> << newFg, ClearBit3(newBg) >>
        [] OTHER -> fb

\* a variant whose H and h toggle the intensity bit
SynchronetEffectToggle(code, fb) ==
  LET newFg == fb[1]
      newBg == fb[2]
  IN  CASE code = 107 -> << 0, newBg >>
        [] code = 98 -> << 1, newBg >>
        [] code = 103 -> << 2, newBg >>
        [] code = 99 -> << 3, newBg >>
        [] code = 114 -> << 4, newBg >>
        [] code = 109 -> << 5, newBg >>
        [] code = 121 -> << 6, newBg >>
        [] code = 119 -> << 7, newBg >>
        [] code = 75 -> << 8, newBg >>
        [] code = 66 -> << 9, newBg >>
        [] code = 71 -> << 10, newBg >>
        [] code = 67 -> << 11, newBg >>
        [] code = 82 -> << 12, newBg >>
        [] code = 77 -> << 13, newBg >>
        [] code = 89 -> << 14, newBg >>
        [] code = 87 -> << 15, newBg >>
        [] code >= 48 /\ code <= 55 -> << newFg, code - 48 >>
        [] code = 72 \/ code = 104 -> << (IF Bit3(newFg) = 8 THEN ClearBit3(newFg) ELSE SetBit3(newFg)), newBg >>
        [] code = 73 \/ code = 105 -> << newFg, SetBit3(newBg) >>
        [] code = 78 \/ code = 110 -> << 7, 0 >>
        [] code = 45 -> << ClearBit3(newFg), newBg >>
        [] code = 95 -> << newFg, ClearBit3(newBg) >>
        [] OTHER -> fb

\* the << newFg, newBg >> a Synchronet code byte gives from << fg, bg >>
SynchronetEffect(code, fb) ==
  LET newFg == fb[1]
      newBg == fb[2]
  IN  CASE code = 107 -> << 0, newBg >>
        [] code = 98 -> << 1, newBg >>
        [] code = 103 -> << 2, newBg >>
        [] code = 99 -> << 3, newBg >>
        [] code = 114 -> << 4, newBg >>
        [] code = 109 -> << 5, newBg >>
        [] code = 121 -> << 6, newBg >>
        [] code = 119 -> << 7, newBg >>
        [] code = 75 -> << 8, newBg >>
        [] code = 66 -> << 9, newBg >>
        [] code = 71 -> << 10, newBg >>
        [] code = 67 -> << 11, newBg >>
        [] code = 82 -> << 12, newBg >>
        [] code = 77 -> << 13, newBg >>
        [] code = 89 -> << 14, newBg >>
        [] code = 87 -> << 15, newBg >>
        [] code >= 48 /\ code <= 55 -> << newFg, code - 48 >>
        [] code = 72 \/ code = 104 -> << SetBit3(newFg), newBg >>
        [] code = 73 \/ code = 105 -> << newFg, SetBit3(newBg) >>
        [] code = 78 \/ code = 110 -> << 7, 0 >>
        [] code = 45 -> << ClearBit3(newFg), newBg >>
        [] code = 95 -> << newFg, ClearBit3(newBg) >>
        [] OTHER -> fb

processSynchronetCode(c, code) ==
  LET d == [c EXCEPT !.lineHasAnsi = TRUE]
      fb == SynchronetEffect(code, << c.foreground, c.background >>)
  IN  switchColor(d, fb[2], fb[1])

\* a variant whose foreground codes set the hue only
processRenegadeCodeHueOnly(c, code) ==
  LET d == [c EXCEPT !.lineHasAnsi = TRUE]
      newFg == IF code >= 0 /\ code <= 15 THEN code % 8 ELSE c.foreground
      newBg == IF code >= 16 /\ code <= 23 THEN code - 16 ELSE c.background
  IN  switchColor(d, newBg, newFg)

processRenegadeCode(c, code) ==
  LET d == [c EXCEPT !.lineHasAnsi = TRUE]
      newFg == IF code >= 0 /\ code <= 15 THEN code ELSE c.foreground
      newBg == IF code >= 16 /\ code <= 23 THEN code - 16 ELSE c.background
  IN  switchColor(d, newBg, newFg)

\* the Escape and Csi cases, which processCharCode and processUtf8Char share
\* statement for statement
EscapeState(c, code) ==
  CASE code = 91 -> [c EXCEPT !.parseState = "Csi", !.csiParams = << >>]
    [] code = 55 -> [c EXCEPT !.savePositionActive = TRUE, !.lineHasAnsi = TRUE,
                              !.parseState = "Normal"]
    [] code = 56 -> [c EXCEPT !.savePositionActive = FALSE, !.lineHasAnsi = TRUE,
                              !.parseState = "Normal"]
    [] OTHER -> [c EXCEPT !.parseState = "Normal"]

\* a variant whose aborted sequence hands the aborting byte on as text
CsiStateEmitsAborter(c, code) ==
  IF IsDigit(code) \/ code = 59
  THEN [c EXCEPT !.csiParams = Append(@, code)]
  ELSE IF code >= 64 /\ code <= 126
  THEN [processCsi(c, c.csiParams, code) EXCEPT !.parseState = "Normal"]
  ELSE [emitChar(c, code) EXCEPT !.parseState = "Normal"]

CsiState(c, code) ==
  IF IsDigit(code) \/ code = 59
  THEN [c EXCEPT !.csiParams = Append(@, code)]
  ELSE IF code >= 64 /\ code <= 126
  THEN [processCsi(c, c.csiParams, code) EXCEPT !.parseState = "Normal"]
  ELSE [c EXCEPT !.parseState = "Normal"]

\* CP437_TO_UNICODE[charCode] ?? U+FFFD
Cp437OrReplacement(charCode) ==
  IF Cp437Lookup(charCode) = -1 THEN REPLACEMENT ELSE Cp437Lookup(charCode)

\* a variant that writes a code above 23 out as text
RECURSIVE processCharCodeInvalidAsText(_, _, _)
processCharCodeInvalidAsText(c, opts, charCode) ==
  CASE c.parseState = "Normal" ->
         IF charCode = ESC THEN [c EXCEPT !.parseState = "Escape"]
         ELSE IF opts.synchronetCtrlA /\ charCode = CTRL_A
         THEN [c EXCEPT !.parseState = "SynchronetCtrlA"]
         ELSE IF opts.renegadePipe /\ charCode = PIPE
         THEN [c EXCEPT !.parseState = "RenegadePipe1"]
         ELSE IF charCode = LF THEN emitChar(c, LF)
         ELSE IF charCode = CR THEN c
         ELSE IF charCode < 32 \/ charCode >= 127
         THEN emitChar(c, Cp437OrReplacement(charCode))
         ELSE emitChar(c, charCode)
    [] c.parseState = "Escape" -> EscapeState(c, charCode)
    [] c.parseState = "Csi" -> CsiState(c, charCode)
    [] c.parseState = "SynchronetCtrlA" ->
         [processSynchronetCode(c, charCode) EXCEPT !.parseState = "Normal"]
    [] c.parseState = "RenegadePipe1" ->
         IF IsDigit(charCode)
         THEN [c EXCEPT !.renegadeFirstDigit = charCode - 48,
                        !.parseState = "RenegadePipe2"]
         ELSE processCharCodeInvalidAsText(
                [emitChar(c, PIPE) EXCEPT !.parseState = "Normal"], opts, charCode)
    [] c.parseState = "RenegadePipe2" ->
         IF IsDigit(charCode)
         THEN LET code == c.renegadeFirstDigit * 10 + (charCode - 48)
              IN  [(IF code <= 23 THEN processRenegadeCode(c, code)
                    ELSE emitChar(emitChar(emitChar(c, PIPE), 48 + c.renegadeFirstDigit),
                                  charCode))
                     EXCEPT !.parseState = "Normal"]
         ELSE processCharCodeInvalidAsText(
                [emitChar(emitChar(c, PIPE), 48 + c.renegadeFirstDigit)
                   EXCEPT !.parseState = "Normal"],
                opts, charCode)

\* a variant that drops the byte that breaks a pipe code
processCharCodeDropsBreaker(c, opts, charCode) ==
  CASE c.parseState = "Normal" ->
         IF charCode = ESC THEN [c EXCEPT !.parseState = "Escape"]
         ELSE IF opts.synchronetCtrlA /\ charCode = CTRL_A
         THEN [c EXCEPT !.parseState = "SynchronetCtrlA"]
         ELSE IF opts.renegadePipe /\ charCode = PIPE
         THEN [c EXCEPT !.parseState = "RenegadePipe1"]
         ELSE IF charCode = LF THEN emitChar(c, LF)
         ELSE IF charCode = CR THEN c
         ELSE IF charCode < 32 \/ charCode >= 127
         THEN emitChar(c, Cp437OrReplacement(charCode))
         ELSE emitChar(c, charCode)
    [] c.parseState = "Escape" -> EscapeState(c, charCode)
    [] c.parseState = "Csi" -> CsiState(c, charCode)
    [] c.parseState = "SynchronetCtrlA" ->
         [processSynchronetCode(c, charCode) EXCEPT !.parseState = "Normal"]
    [] c.parseState = "RenegadePipe1" ->
         IF IsDigit(charCode)
         THEN [c EXCEPT !.renegadeFirstDigit = charCode - 48,
                        !.parseState = "RenegadePipe2"]
         ELSE [emitChar(c, PIPE) EXCEPT !.parseState = "Normal"]
    [] c.parseState = "RenegadePipe2" ->
         IF IsDigit(charCode)
         THEN LET code == c.renegadeFirstDigit * 10 + (charCode - 48)
              IN  [(IF code <= 23 THEN processRenegadeCode(c, code) ELSE c)
                     EXCEPT !.parseState = "Normal"]
         ELSE [emitChar(emitChar(c, PIPE), 48 + c.renegadeFirstDigit)
                 EXCEPT !.parseState = "Normal"]

\* a variant that takes `|` as a prefix whatever the options
RECURSIVE processCharCodePipeAlways(_, _, _)
processCharCodePipeAlways(c, opts, charCode) ==
  CASE c.parseState = "Normal" ->
         IF charCode = ESC THEN [c EXCEPT !.parseState = "Escape"]
         ELSE IF opts.synchronetCtrlA /\ charCode = CTRL_A
         THEN [c EXCEPT !.parseState = "SynchronetCtrlA"]
         ELSE IF charCode = PIPE
         THEN [c EXCEPT !.parseState = "RenegadePipe1"]
         ELSE IF charCode = LF THEN emitChar(c, LF)
         ELSE IF charCode = CR THEN c
         ELSE IF charCode < 32 \/ charCode >= 127
         THEN emitChar(c, Cp437OrReplacement(charCode))
         ELSE emitChar(c, charCode)
    [] c.parseState = "Escape" -> EscapeState(c, charCode)
    [] c.parseState = "Csi" -> CsiState(c, charCode)
    [] c.parseState = "SynchronetCtrlA" ->
         [processSynchronetCode(c, charCode) EXCEPT !.parseState = "Normal"]
    [] c.parseState = "RenegadePipe1" ->
         IF IsDigit(charCode)
         THEN [c EXCEPT !.renegadeFirstDigit = charCode - 48,
                        !.parseState = "RenegadePipe2"]
         ELSE processCharCodePipeAlways([emitChar(c, PIPE) EXCEPT !.parseState = "Normal"],
                              opts, charCode)
    [] c.parseState = "RenegadePipe2" ->
         IF IsDigit(charCode)
         THEN LET code == c.renegadeFirstDigit * 10 + (charCode - 48)
              IN  [(IF code <= 23 THEN processRenegadeCode(c, code) ELSE c)
                     EXCEPT !.parseState = "Normal"]
         ELSE processCharCodePipeAlways(
                [emitChar(emitChar(c, PIPE), 48 + c.renegadeFirstDigit)
                   EXCEPT !.parseState = "Normal"],
                opts, charCode)

\* a variant whose second fallthrough re-enters in RenegadePipe1, and so
\* falls through a second time
RECURSIVE processCharCodeReenters(_, _, _)
processCharCodeReenters(c, opts, charCode) ==
  CASE c.parseState = "Normal" ->
         IF charCode = ESC THEN [c EXCEPT !.parseState = "Escape"]
         ELSE IF opts.synchronetCtrlA /\ charCode = CTRL_A
         THEN [c EXCEPT !.parseState = "SynchronetCtrlA"]
         ELSE IF opts.renegadePipe /\ charCode = PIPE
         THEN [c EXCEPT !.parseState = "RenegadePipe1"]
         ELSE IF charCode = LF THEN emitChar(c, LF)
         ELSE IF charCode = CR THEN c
         ELSE IF charCode < 32 \/ charCode >= 127
         THEN emitChar(c, Cp437OrReplacement(charCode))
         ELSE emitChar(c, charCode)
    [] c.parseState = "Escape" -> EscapeState(c, charCode)
    [] c.parseState = "Csi" -> CsiState(c, charCode)
    [] c.parseState = "SynchronetCtrlA" ->
         [processSynchronetCode(c, charCode) EXCEPT !.parseState = "Normal"]
    [] c.parseState = "RenegadePipe1" ->
         IF IsDigit(charCode)
         THEN [c EXCEPT !.renegadeFirstDigit = charCode - 48,
                        !.parseState = "RenegadePipe2"]
         ELSE processCharCodeReenters([emitChar(c, PIPE) EXCEPT !.parseState = "Normal"],
                              opts, charCode)
    [] c.parseState = "RenegadePipe2" ->
         IF IsDigit(charCode)
         THEN LET code == c.renegadeFirstDigit * 10 + (charCode - 48)
              IN  [(IF code <= 23 THEN processRenegadeCode(c, code) ELSE c)
                     EXCEPT !.parseState = "Normal"]
         ELSE processCharCodeReenters(
                [emitChar(emitChar(c, PIPE), 48 + c.renegadeFirstDigit)
                   EXCEPT !.parseState = "RenegadePipe1"],
                opts, charCode)

RECURSIVE processCharCode(_, _, _)
processCharCode(c, opts, charCode) ==
  CASE c.parseState = "Normal" ->
         IF charCode = ESC THEN [c EXCEPT !.parseState = "Escape"]
         ELSE IF opts.synchronetCtrlA /\ charCode = CTRL_A
         THEN [c EXCEPT !.parseState = "SynchronetCtrlA"]
         ELSE IF opts.renegadePipe /\ charCode = PIPE
         THEN [c EXCEPT !.parseState = "RenegadePipe1"]
         ELSE IF charCode = LF THEN emitChar(c, LF)
         ELSE IF charCode = CR THEN c
         ELSE IF charCode < 32 \/ charCode >= 127
         THEN emitChar(c, Cp437OrReplacement(charCode))
         ELSE emitChar(c, charCode)
    [] c.parseState = "Escape" -> EscapeState(c, charCode)
    [] c.parseState = "Csi" -> CsiState(c, charCode)
    [] c.parseState = "SynchronetCtrlA" ->
         [processSynchronetCode(c, charCode) EXCEPT !.parseState = "Normal"]
    [] c.parseState = "RenegadePipe1" ->
         IF IsDigit(charCode)
         THEN [c EXCEPT !.renegadeFirstDigit = charCode - 48,
                        !.parseState = "RenegadePipe2"]
         ELSE processCharCode([emitChar(c, PIPE) EXCEPT !.parseState = "Normal"],
                              opts, charCode)
    [] c.parseState = "RenegadePipe2" ->
         IF IsDigit(charCode)
         THEN LET code == c.renegadeFirstDigit * 10 + (charCode - 48)
              IN  [(IF code <= 23 THEN processRenegadeCode(c, code) ELSE c)
                     EXCEPT !.parseState = "Normal"]
         ELSE processCharCode(
                [emitChar(emitChar(c, PIPE), 48 + c.renegadeFirstDigit)
                   EXCEPT !.parseState = "Normal"],
                opts, charCode)

\* a variant that passes control characters through as they are
RECURSIVE processUtf8CharRaw(_, _, _)
processUtf8CharRaw(c, opts, ch) ==
  CASE c.parseState = "Normal" ->
         IF ch = ESC THEN [c EXCEPT !.parseState = "Escape"]
         ELSE IF opts.synchronetCtrlA /\ ch = CTRL_A
         THEN [c EXCEPT !.parseState = "SynchronetCtrlA"]
         ELSE IF opts.renegadePipe /\ ch = PIPE
         THEN [c EXCEPT !.parseState = "RenegadePipe1"]
         ELSE IF ch = LF THEN emitChar(c, LF)
         ELSE IF ch = CR THEN c
         ELSE emitChar(c, ch)
    [] c.parseState = "Escape" -> EscapeState(c, ch)
    [] c.parseState = "Csi" -> CsiState(c, ch)
    [] c.parseState = "SynchronetCtrlA" ->
         [(IF ch <= 255 THEN processSynchronetCode(c, ch) ELSE c)
            EXCEPT !.parseState = "Normal"]
    [] c.parseState = "RenegadePipe1" ->
         IF IsDigit(ch)
         THEN [c EXCEPT !.renegadeFirstDigit = ch - 48,
                        !.parseState = "RenegadePipe2"]
         ELSE processUtf8CharRaw([emitChar(c, PIPE) EXCEPT !.parseState = "Normal"],
                              opts, ch)
    [] c.parseState = "RenegadePipe2" ->
         IF IsDigit(ch)
         THEN LET pipeCode == c.renegadeFirstDigit * 10 + (ch - 48)
              IN  [(IF pipeCode <= 23 THEN processRenegadeCode(c, pipeCode) ELSE c)
                     EXCEPT !.parseState = "Normal"]
         ELSE processUtf8CharRaw(
                [emitChar(emitChar(c, PIPE), 48 + c.renegadeFirstDigit)
                   EXCEPT !.parseState = "Normal"],
                opts, ch)

RECURSIVE processUtf8Char(_, _, _)
processUtf8Char(c, opts, ch) ==
  CASE c.parseState = "Normal" ->
         IF ch = ESC THEN [c EXCEPT !.parseState = "Escape"]
         ELSE IF opts.synchronetCtrlA /\ ch = CTRL_A
         THEN [c EXCEPT !.parseState = "SynchronetCtrlA"]
         ELSE IF opts.renegadePipe /\ ch = PIPE
         THEN [c EXCEPT !.parseState = "RenegadePipe1"]
         ELSE IF ch = LF THEN emitChar(c, LF)
         ELSE IF ch = CR THEN c
         ELSE IF ch < 32 THEN emitChar(c, Cp437OrReplacement(ch))
         ELSE emitChar(c, ch)
    [] c.parseState = "Escape" -> EscapeState(c, ch)
    [] c.parseState = "Csi" -> CsiState(c, ch)
    [] c.parseState = "SynchronetCtrlA" ->
         [(IF ch <= 255 THEN processSynchronetCode(c, ch) ELSE c)
            EXCEPT !.parseState = "Normal"]
    [] c.parseState = "RenegadePipe1" ->
         IF IsDigit(ch)
         THEN [c EXCEPT !.renegadeFirstDigit = ch - 48,
                        !.parseState = "RenegadePipe2"]
         ELSE processUtf8Char([emitChar(c, PIPE) EXCEPT !.parseState = "Normal"],
                              opts, ch)
    [] c.parseState = "RenegadePipe2" ->
         IF IsDigit(ch)
         THEN LET pipeCode == c.renegadeFirstDigit * 10 + (ch - 48)
              IN  [(IF pipeCode <= 23 THEN processRenegadeCode(c, pipeCode) ELSE c)
                     EXCEPT !.parseState = "Normal"]
         ELSE processUtf8Char(
                [emitChar(emitChar(c, PIPE), 48 + c.renegadeFirstDigit)
                   EXCEPT !.parseState = "Normal"],
                opts, ch)

(***************************************************************************)
(* converter.ts: << 83, 65, 85, 67, 69 >> / << 67, 79, 77, 78, 84 >> trailer.  Positions are 0-based as in the   *)
(* source, and -1 stands for null.                                         *)
(***************************************************************************)
SauceMarker == << 83, 65, 85, 67, 69, 48, 48 >>
SauceId == << 83, 65, 85, 67, 69 >>
ComntId == << 67, 79, 77, 78, 84 >>
SauceRecordLen == 128
ComntWindow == 64 * 256 + 5

\* the characters /[\s\0]/ matches
IsTrimmed(ch) ==
  ch \in {0, 9, 10, 11, 12, 13, 32, 160, 5760, 8232, 8233, 8239, 8287, 12288, 65279}
    \cup (8192..8202)

RECURSIVE TrimEnd(_)
TrimEnd(s) ==
  IF s = << >> THEN s
  ELSE IF IsTrimmed(s[Len(s)]) THEN TrimEnd(SubSeq(s, 1, Len(s) - 1))
  ELSE s

\* decodeField: the field decoded through the table, trailing blanks removed
decodeField(input, start, length) ==
  LET last == IF start + length < Len(input) THEN start + length ELSE Len(input)
      raw == Slice(input, start + 1, last)
  IN  TrimEnd([ k \in 1..Len(raw) |->
                  IF Cp437Lookup(raw[k]) = -1 THEN raw[k] ELSE Cp437Lookup(raw[k]) ])

\* bitwise or of two non-negative numbers
RECURSIVE BitOr(_, _)
BitOr(a, b) ==
  IF a = 0 THEN b
  ELSE IF b = 0 THEN a
  ELSE (IF a % 2 = 1 \/ b % 2 = 1 THEN 1 ELSE 0) + 2 * BitOr(a \div 2, b \div 2)

\* the comment lines of a COMNT body, 64 characters each, empty ones dropped
RECURSIVE CommentLines(_, _)
CommentLines(commentData, i) ==
  IF i >= Len(commentData) THEN << >>
  ELSE LET line == decodeField(commentData, i, 64)
       IN  (IF line # << >> THEN << line >> ELSE << >>)
             \o CommentLines(commentData, i + 64)

\* parseSauceRecord: the record, or the empty set for null
parseSauceRecord(input, saucePos, comntPos) ==
  IF saucePos + SauceRecordLen > Len(input) THEN {}
  ELSE IF Slice(input, saucePos + 1, saucePos + 5) # SauceId THEN {}
  ELSE
    { [ title |-> decodeField(input, saucePos + 7, 35),
        author |-> decodeField(input, saucePos + 42, 20),
        group |-> decodeField(input, saucePos + 62, 20),
        date |-> decodeField(input, saucePos + 82, 8),
        width |-> BitOr(input[saucePos + 97], input[saucePos + 98] * 256),
        height |-> BitOr(input[saucePos + 99], input[saucePos + 100] * 256),
        comments |->
          IF comntPos # -1 /\ comntPos < saucePos
               /\ Slice(input, comntPos + 1, comntPos + 5) = ComntId
          THEN CommentLines(Slice(input, comntPos + 6, saucePos), 0)
          ELSE << >>,
        font |-> decodeField(input, saucePos + 106, 22) ] }

\* a variant that takes any eight characters for a date
IsDate8AnyChars(s) == Len(s) = 8

\* /^\d{8}$/ on a string of length 8
IsDate8(s) == Len(s) = 8 /\ \A k \in 1..8 : IsDigit(s[k])

RECURSIVE CommentOutput(_)
CommentOutput(comments) ==
  IF comments = << >> THEN << >>
  ELSE << 67, 111, 109, 109, 101, 110, 116, 58, 32 >> \o Head(comments) \o << LF >> \o CommentOutput(Tail(comments))

formatSauceOutput(sauce) ==
  (IF sauce.title # << >> THEN << 84, 105, 116, 108, 101, 58, 32 >> \o sauce.title \o << LF >> ELSE << >>)
  \o (IF sauce.author # << >> THEN << 65, 117, 116, 104, 111, 114, 58, 32 >> \o sauce.author \o << LF >> ELSE << >>)
  \o (IF sauce.group # << >> THEN << 71, 114, 111, 117, 112, 58, 32 >> \o sauce.group \o << LF >> ELSE << >>)
  \o (IF sauce.date # << >>
      THEN IF IsDate8(sauce.date)
           THEN << 68, 97, 116, 101, 58, 32 >> \o SubSeq(sauce.date, 1, 4) \o << 45 >>
                  \o SubSeq(sauce.date, 5, 6) \o << 45 >>
                  \o SubSeq(sauce.date, 7, 8) \o << LF >>
           ELSE << 68, 97, 116, 101, 58, 32 >> \o sauce.date \o << LF >>
      ELSE << >>)
  \o (IF sauce.width > 0 \/ sauce.height > 0
      THEN << 83, 105, 122, 101, 58, 32 >> \o NumToStr(sauce.width) \o << 120 >>
             \o NumToStr(sauce.height) \o << LF >>
      ELSE << >>)
  \o (IF sauce.font # << >> THEN << 70, 111, 110, 116, 58, 32 >> \o sauce.font \o << LF >> ELSE << >>)
  \o CommentOutput(sauce.comments)

\* findSaucePositions: << saucePos, comntPos, afterSaucePos >>
findSaucePositions(input) ==
  LET saucePos == LastIndexOf(input, SauceMarker)
  IN  IF saucePos = -1 THEN << -1, -1, -1 >>
      ELSE LET searchStart == IF saucePos - ComntWindow > 0
                              THEN saucePos - ComntWindow ELSE 0
               searchArea == Slice(input, searchStart + 1, saucePos)
               comntRelPos == LastIndexOf(searchArea, ComntId)
           IN  << saucePos,
                  (IF comntRelPos # -1 THEN searchStart + comntRelPos ELSE -1),
                  saucePos + SauceRecordLen >>

(***************************************************************************)
(* State: one call ansiToHtml(input, options).  conv is the Converter      *)
(* object; pc, i and the positions are the locals of convert /             *)
(* convertUtf8, which differ only in the per-unit function they call.      *)
(***************************************************************************)
VARIABLES input, options, conv, pc, i, subPos, saucePos, comntPos,
          afterSaucePos, contentEnd, sauceOutput, j

vars == << input, options, conv, pc, i, subPos, saucePos, comntPos,
           afterSaucePos, contentEnd, sauceOutput, j >>

\* what convert never assigns after its prologue
positions == << subPos, saucePos, comntPos, afterSaucePos, contentEnd >>

\* the per-unit function ansiToHtml selects with options.utf8Input
ProcessUnit(c, opts, u) ==
  IF opts.utf8Input THEN processUtf8Char(c, opts, u) ELSE processCharCode(c, opts, u)

\* where convert goes once the content loop has run to contentEnd
AfterContent(sp) == IF sp # -1 THEN "sauce" ELSE "close"

\* does the tail hold a unit that is neither NUL nor SUB
hasMeaningfulContent(remaining) ==
  \E k \in 1..Len(remaining) : remaining[k] # 0 /\ remaining[k] # SUB

\* convert, lines 681-698: the prologue, up to the content loop
Start ==
  /\ pc = "start"
  /\ LET pos == findSaucePositions(input)
         sub == IndexOfSub(input)
         cend == IF sub # -1 THEN sub
                 ELSE IF pos[2] # -1 THEN pos[2]
                 ELSE IF pos[1] # -1 THEN pos[1]
                 ELSE Len(input)
     IN  /\ conv' = openTag([conv EXCEPT !.output = PreOpen])
         /\ subPos' = sub
         /\ saucePos' = pos[1]
         /\ comntPos' = pos[2]
         /\ afterSaucePos' = pos[3]
         /\ contentEnd' = cend
         /\ i' = 0
         /\ pc' = IF cend > 0 THEN "content" ELSE AfterContent(pos[1])
  /\ UNCHANGED << input, options, sauceOutput, j >>

\* one iteration of the content loop
ProcessContent ==
  /\ pc = "content"
  /\ i < contentEnd
  /\ conv' = ProcessUnit(conv, options, input[i + 1])
  /\ i' = i + 1
  /\ pc' = IF i + 1 < contentEnd THEN "content" ELSE AfterContent(saucePos)
  /\ UNCHANGED << input, options, positions, sauceOutput, j >>

\* a variant that switches suppression off where the content ends, so that
\* the record is always shown
SauceBlockShowsRecord ==
  /\ pc = "sauce"
  /\ LET parsed == parseSauceRecord(input, saucePos, comntPos)
         out == IF parsed = {} THEN << >>
                ELSE formatSauceOutput(CHOOSE r \in parsed : TRUE)
         shown == [conv EXCEPT !.savePositionActive = FALSE]
     IN  /\ sauceOutput' = out
         /\ conv' = IF out # << >> THEN emitChar(shown, LF) ELSE shown
         /\ pc' = IF out # << >> THEN "sauceout" ELSE "tailcheck"
  /\ j' = 0
  /\ UNCHANGED << input, options, positions, i >>

\* the record parsed and formatted, and the line feed forced before it
SauceBlock ==
  /\ pc = "sauce"
  /\ LET parsed == parseSauceRecord(input, saucePos, comntPos)
         out == IF parsed = {} THEN << >>
                ELSE formatSauceOutput(CHOOSE r \in parsed : TRUE)
     IN  /\ sauceOutput' = out
         /\ conv' = IF out # << >> THEN emitChar(conv, LF) ELSE conv
         /\ pc' = IF out # << >> THEN "sauceout" ELSE "tailcheck"
  /\ j' = 0
  /\ UNCHANGED << input, options, positions, i >>

\* one iteration of the loop that emits the formatted record
EmitSauce ==
  /\ pc = "sauceout"
  /\ j < Len(sauceOutput)
  /\ conv' = emitChar(conv, sauceOutput[j + 1])
  /\ j' = j + 1
  /\ pc' = IF j + 1 < Len(sauceOutput) THEN "sauceout" ELSE "tailcheck"
  /\ UNCHANGED << input, options, positions, i, sauceOutput >>

\* the test for content after the record, and the line feed forced before it
TailCheck ==
  /\ pc = "tailcheck"
  /\ LET tail == afterSaucePos # -1 /\ afterSaucePos < Len(input)
                   /\ hasMeaningfulContent(Slice(input, afterSaucePos + 1, Len(input)))
     IN  /\ conv' = IF tail THEN emitChar(conv, LF) ELSE conv
         /\ i' = IF tail THEN afterSaucePos ELSE i
         /\ pc' = IF tail THEN "tail" ELSE "close"
  /\ UNCHANGED << input, options, positions, sauceOutput, j >>

\* one iteration of the loop over the tail; a SUB ends it
ProcessTail ==
  /\ pc = "tail"
  /\ i < Len(input)
  /\ IF input[i + 1] = SUB
     THEN /\ pc' = "close"
          /\ UNCHANGED << conv, i >>
     ELSE /\ conv' = ProcessUnit(conv, options, input[i + 1])
          /\ i' = i + 1
          /\ pc' = IF i + 1 < Len(input) THEN "tail" ELSE "close"
  /\ UNCHANGED << input, options, positions, sauceOutput, j >>

\* the closing tag and `</pre>`; conv.output is then the returned string
Close ==
  /\ pc = "close"
  /\ conv' = [closeTag(conv) EXCEPT !.output = @ \o PreClose]
  /\ pc' = "done"
  /\ UNCHANGED << input, options, positions, i, sauceOutput, j >>

Next ==
  Start \/ ProcessContent \/ SauceBlock \/ EmitSauce \/ TailCheck \/ ProcessTail
    \/ Close

\* the state after `new Converter(options)`, for a call drawn from calls
InitWith(calls) ==
  /\ \E call \in calls : input = call.input /\ options = call.options
  /\ conv = NewConverter
  /\ pc = "start"
  /\ i = 0
  /\ j = 0
  /\ sauceOutput = << >>
  /\ subPos = -1
  /\ saucePos = -1
  /\ comntPos = -1
  /\ afterSaucePos = -1
  /\ contentEnd = 0

(***************************************************************************)
(* Calls: inputs as strings of code units, with their options.  The texts  *)
(* are those of the documented examples (converter_test.ts).               *)
(***************************************************************************)
\* 'Hello'
TxtHello ==
  << 72, 101, 108, 108, 111 >>
\* '<script>&</script>'
TxtScript ==
  << 60, 115, 99, 114, 105, 112, 116, 62, 38, 60, 47, 115, 99, 114, 105,
  112, 116, 62 >>
\* '"quoted"'
TxtQuoted ==
  << 34, 113, 117, 111, 116, 101, 100, 34 >>
\* "it's here"
TxtItsHere ==
  << 105, 116, 39, 115, 32, 104, 101, 114, 101 >>
\* 'Red'
TxtRed ==
  << 82, 101, 100 >>
\* 'Normal'
TxtNormal ==
  << 78, 111, 114, 109, 97, 108 >>
\* 'Before'
TxtBefore ==
  << 66, 101, 102, 111, 114, 101 >>
\* 'Hidden'
TxtHidden ==
  << 72, 105, 100, 100, 101, 110 >>
\* 'After'
TxtAfter ==
  << 65, 102, 116, 101, 114 >>
\* 'Text'
TxtText ==
  << 84, 101, 120, 116 >>
\* 'Content'
TxtContent ==
  << 67, 111, 110, 116, 101, 110, 116 >>
\* 'Test Title'
TxtTestTitle ==
  << 84, 101, 115, 116, 32, 84, 105, 116, 108, 101 >>
\* 'Test Author'
TxtTestAuthor ==
  << 84, 101, 115, 116, 32, 65, 117, 116, 104, 111, 114 >>
\* 'Test Group'
TxtTestGroup ==
  << 84, 101, 115, 116, 32, 71, 114, 111, 117, 112 >>
\* '20240115'
TxtDate ==
  << 50, 48, 50, 52, 48, 49, 49, 53 >>
\* 'IBM VGA'
TxtFont ==
  << 73, 66, 77, 32, 86, 71, 65 >>
\* 'This is a comment line for the ANSI art.'
TxtComment ==
  << 84, 104, 105, 115, 32, 105, 115, 32, 97, 32, 99, 111, 109, 109, 101,
  110, 116, 32, 108, 105, 110, 101, 32, 102, 111, 114, 32, 116, 104, 101,
  32, 65, 78, 83, 73, 32, 97, 114, 116, 46 >>
\* 'Content after SAUCE record'
TxtTail ==
  << 67, 111, 110, 116, 101, 110, 116, 32, 97, 102, 116, 101, 114, 32, 83,
  65, 85, 67, 69, 32, 114, 101, 99, 111, 114, 100 >>
\* 'Red 256'
TxtRed256 ==
  << 82, 101, 100, 32, 50, 53, 54 >>
\* 'Blue BG'
TxtBlueBG ==
  << 66, 108, 117, 101, 32, 66, 71 >>
\* 'Orange'
TxtOrange ==
  << 79, 114, 97, 110, 103, 101 >>
\* '256'
Txt256 ==
  << 50, 53, 54 >>
\* 'RGB'
TxtRGB ==
  << 82, 71, 66 >>

DefaultOptions == [utf8Input |-> FALSE, synchronetCtrlA |-> FALSE, renegadePipe |-> FALSE]
RenegadeOptions == [utf8Input |-> FALSE, synchronetCtrlA |-> FALSE, renegadePipe |-> TRUE]
SyncOptions == [utf8Input |-> FALSE, synchronetCtrlA |-> TRUE, renegadePipe |-> FALSE]
AllOptions == [utf8Input : BOOLEAN, synchronetCtrlA : BOOLEAN, renegadePipe : BOOLEAN]

Call(in, opts) == [input |-> in, options |-> opts]

\* ESC [ params final
Csi(params, final) == << ESC, 91 >> \o params \o << final >>
Sgr(params) == Csi(params, 109)

\* s padded on the right with fill to length n, cut to n (padEnd + slice)
Pad(s, n, fill) == [ k \in 1..n |-> IF k <= Len(s) THEN s[k] ELSE fill ]

\* createSauceRecord of converter_test.ts: a 128-byte SAUCE record
createSauceRecord(f) ==
  SauceMarker
    \o Pad(f.title, 35, 32) \o Pad(f.author, 20, 32) \o Pad(f.group, 20, 32)
    \o Pad(f.date, 8, 32)
    \o << 0, 0, 0, 0 >> \o << 1, 1 >>
    \o << f.width % 256, (f.width \div 256) % 256 >>
    \o << f.height % 256, (f.height \div 256) % 256 >>
    \o << 0, 0, 0, 0 >> \o << 0 >> \o << 0 >>
    \o Pad(f.font, 22, 0)

\* 'COMNT' and one 64-byte line per comment
RECURSIVE ComntLines(_)
ComntLines(lines) ==
  IF lines = << >> THEN << >>
  ELSE Pad(Head(lines), 64, 32) \o ComntLines(Tail(lines))

ComntBlock(lines) == ComntId \o ComntLines(lines)

TestSauce ==
  [ title |-> TxtTestTitle, author |-> TxtTestAuthor, group |-> TxtTestGroup,
    date |-> TxtDate, width |-> 80, height |-> 25, font |-> TxtFont ]

ExHello == TxtHello
ExReset == Sgr(<< 51, 49 >>) \o TxtRed \o Sgr(<< 48 >>) \o TxtNormal
ExSaveRestore ==
  TxtBefore \o Csi(<< >>, 115) \o TxtHidden \o Csi(<< >>, 117) \o TxtAfter
ExEscapedPipe == << PIPE, PIPE, 48, 52 >> \o TxtText
ExSauce == TxtContent \o << SUB >> \o createSauceRecord(TestSauce)
ExSauceComnt ==
  TxtContent \o << SUB >> \o ComntBlock(<< TxtComment >>) \o createSauceRecord(TestSauce)
ExSauceTail ==
  TxtContent \o << SUB >> \o createSauceRecord(TestSauce) \o TxtTail
ExFg256 == Sgr(<< 51, 56, 59, 53, 59, 49, 57, 54 >>) \o TxtRed256
ExBg256 == Sgr(<< 52, 56, 59, 53, 59, 50, 49 >>) \o TxtBlueBG
ExBoth256 ==
  Sgr(<< 51, 56, 59, 53, 59, 50, 50, 54, 59, 52, 56, 59, 53, 59, 50, 49 >>) \o TxtText
ExFgRgb ==
  Sgr(<< 51, 56, 59, 50, 59, 50, 53, 53, 59, 49, 50, 56, 59, 48 >>) \o TxtOrange
Ex256ToRgb ==
  Sgr(<< 51, 56, 59, 53, 59, 49, 57, 54 >>) \o Txt256
    \o Sgr(<< 51, 56, 59, 50, 59, 50, 53, 53, 59, 48, 59, 48 >>) \o TxtRGB

\* the documented examples, each with the options its test passes
Examples ==
  { Call(in, DefaultOptions) :
      in \in { ExHello, TxtScript, TxtQuoted, TxtItsHere, ExReset, ExSaveRestore,
               ExSauce, ExSauceComnt, ExSauceTail,
               ExFg256, ExBg256, ExBoth256, ExFgRgb, Ex256ToRgb } }
    \cup { Call(ExEscapedPipe, RenegadeOptions) }

\* `<b>&"'`: the five escaped characters
TxtMarkup == << 60, 98, 62, 38, 34, 39 >>

\* a record whose every text field, and whose comment, holds special characters
MarkupSauce ==
  [ title |-> TxtMarkup, author |-> << 97, 62, 98 >>, group |-> << 38 >>,
    date |-> << 60, 50, 48, 50, 52, 62 >>, width |-> 0, height |-> 0,
    font |-> << 34, 39 >> ]
ExMarkupSauce ==
  TxtMarkup \o << SUB >> \o ComntBlock(<< TxtMarkup >>) \o createSauceRecord(MarkupSauce)
    \o TxtMarkup

\* `|` or `|` and a digit followed by a special character
MarkupFallthrough ==
  { << PIPE, ch >> : ch \in { 60, 62, 38, 34, 39 } }
    \cup { << PIPE, 48, ch >> : ch \in { 60, 62, 38, 34, 39 } }

MarkupCalls ==
  { Call(in, [utf8Input |-> u, synchronetCtrlA |-> FALSE, renegadePipe |-> r]) :
      in \in { ExMarkupSauce } \cup MarkupFallthrough, u \in BOOLEAN, r \in BOOLEAN }

(***************************************************************************)
(* Bounded sets of calls.                                                  *)
(***************************************************************************)
MaxTokens == 3
WrapRun == 85

\* literal units: A < & " ' > LF CR | 4 Ctrl-A, the CP437 byte 0xDA, DEL
LiteralTokens ==
  { << 65 >>, << 60 >>, << 38 >>, << 34 >>, << 39 >>, << 62 >>, << LF >>, << CR >>,
    << PIPE >>, << 52 >>, << CTRL_A >>, << 218 >>, << 127 >> }

\* SGR sequences: 31, 0, empty, 1;44, 7, 31;0, 5;32;, 1, 22, 95;104, 39;49
SgrTokens ==
  { Sgr(<< 51, 49 >>), Sgr(<< 48 >>), Sgr(<< >>), Sgr(<< 49, 59, 52, 52 >>),
    Sgr(<< 55 >>), Sgr(<< 51, 49, 59, 48 >>), Sgr(<< 53, 59, 51, 50, 59 >>),
    Sgr(<< 49 >>), Sgr(<< 50, 50 >>), Sgr(<< 57, 53, 59, 49, 48, 52 >>),
    Sgr(<< 51, 57, 59, 52, 57 >>) }

\* other escapes: CSI s, u, 2J, J, 3C, C, H, K, an unknown final byte, a CSI
\* aborted by `!`, ESC 7, ESC 8, ESC followed by an unsupported byte
OtherEscapeTokens ==
  { Csi(<< >>, 115), Csi(<< >>, 117), Csi(<< 50 >>, 74), Csi(<< >>, 74),
    Csi(<< 51 >>, 67), Csi(<< >>, 67), Csi(<< >>, 72), Csi(<< >>, 75),
    Csi(<< 49 >>, 122), << ESC, 91, 49, 33 >>, << ESC, 55 >>, << ESC, 56 >>,
    << ESC, 120 >> }

\* Ctrl-A followed by r R 1 h i n - _ and by a byte outside the table
SynchronetTokens ==
  { << CTRL_A, code >> : code \in { 114, 82, 49, 104, 105, 110, 45, 95, 122 } }

\* | followed by 04 12 17 23 24 31 99, by one digit and a letter, by a letter
RenegadeTokens ==
  { << PIPE, 48, 52 >>, << PIPE, 49, 50 >>, << PIPE, 49, 55 >>, << PIPE, 50, 51 >>,
    << PIPE, 50, 52 >>, << PIPE, 51, 49 >>, << PIPE, 57, 57 >>,
    << PIPE, 48, 88 >>, << PIPE, 72 >> }

AllTokens ==
  LiteralTokens \cup SgrTokens \cup OtherEscapeTokens \cup SynchronetTokens
    \cup RenegadeTokens

\* the tokens combined in longer inputs
CoreTokens ==
  { << 65 >>, << 60 >>, << LF >>, << PIPE >>,
    Sgr(<< 51, 49 >>), Sgr(<< 48 >>), Sgr(<< 49, 59, 52, 52 >>), Sgr(<< 55 >>),
    Csi(<< >>, 115), Csi(<< >>, 117),
    << CTRL_A, 82 >>, << PIPE, 49, 55 >> }

\* the concatenations of at most n tokens
RECURSIVE Concats(_, _)
Concats(tokens, n) ==
  IF n = 0 THEN { << >> }
  ELSE LET shorter == Concats(tokens, n - 1)
       IN  shorter \cup { s \o t : s \in shorter, t \in tokens }

\* every pair of tokens under every option combination, and the longer
\* inputs over the core tokens with both dialects enabled, in both modes
GenCalls ==
  { Call(s \o t, opts) :
      s \in AllTokens \cup { << >> }, t \in AllTokens, opts \in AllOptions }
    \cup { Call(in, [utf8Input |-> u, synchronetCtrlA |-> TRUE, renegadePipe |-> TRUE]) :
             in \in Concats(CoreTokens, MaxTokens), u \in BOOLEAN }

\* WrapRun copies of one character
Run(ch) == [ k \in 1..WrapRun |-> ch ]

\* one SGR sequence (or none) followed by a run of one printable character
WrapEscapes ==
  { Sgr(<< 51, 49 >>), Sgr(<< >>), Sgr(<< 48 >>), Sgr(<< 49, 59, 52, 52 >>),
    Sgr(<< 51, 56, 59, 53, 59, 49, 57, 54 >>) }
WrapChars == { 88, 60, 32, 48 }
WrapCalls ==
  { Call(e \o Run(ch), DefaultOptions) :
      e \in WrapEscapes \cup { << >> }, ch \in WrapChars }

\* long lines with no escape sequence: vendor prefixes that are plain text
\* unless their dialect is on, line feeds before and after the run, and a run
\* on each side of a SAUCE record
PlainPrefixes == { << >>, << PIPE, 49, 50 >>, << CTRL_A, 82 >>, << 65, LF >> }
PlainSuffixes == { << >>, << LF, 66 >> }
PlainCalls ==
  { Call(p \o Run(ch) \o q, opts) :
      p \in PlainPrefixes, q \in PlainSuffixes, ch \in { 88, 60 }, opts \in AllOptions }
    \cup { Call(Run(88) \o << SUB >> \o createSauceRecord(TestSauce) \o Run(88),
                [utf8Input |-> u, synchronetCtrlA |-> FALSE, renegadePipe |-> r]) :
             u \in BOOLEAN, r \in BOOLEAN }

(***************************************************************************)
(* Calls with a SAUCE record.  A field is given as the bytes written into  *)
(* the record (raw) and the text a reader of the record sees (shown).      *)
(***************************************************************************)
Field(raw, shown) == [raw |-> raw, shown |-> shown]
Blank == Field(<< >>, << >>)
Same(text) == Field(text, text)

\* a title, a title with inner and trailing spaces, a title of CP437 bytes
\* 0x01 and 0xFF (a smiley, and a no-break space that is trimmed)
TitleCases ==
  { Blank, Same(TxtTestTitle), Field(<< 97, 32, 32, 98, 32 >>, << 97, 32, 32, 98 >>),
    Field(<< 1, 255 >>, << 9786 >>) }
AuthorCases == { Blank, Same(TxtTestAuthor) }
GroupCases == { Blank, Same(TxtTestGroup) }
FontCases == { Blank, Same(TxtFont) }

\* 20240115, and dates that are not eight digits: 2024011, 2024-1-5, 2024011x
DateCases ==
  { Blank,
    Field(TxtDate, << 50, 48, 50, 52, 45, 48, 49, 45, 49, 53 >>),
    Same(<< 50, 48, 50, 52, 48, 49, 49 >>),
    Same(<< 50, 48, 50, 52, 45, 49, 45, 53 >>),
    Same(<< 50, 48, 50, 52, 48, 49, 49, 120 >>) }

\* 0x0, 80x25, 0x25, 300x0
SizeCases ==
  { [width |-> 0, height |-> 0, shown |-> << >>],
    [width |-> 80, height |-> 25, shown |-> << 56, 48, 120, 50, 53 >>],
    [width |-> 0, height |-> 25, shown |-> << 48, 120, 50, 53 >>],
    [width |-> 300, height |-> 0, shown |-> << 51, 48, 48, 120, 48 >>] }

\* no COMNT block, a block of one blank line, of one line, of a blank line
\* and a line, of two lines
CommentCases ==
  { << >>, << Blank >>, << Same(TxtComment) >>, << Blank, Same(TxtComment) >>,
    << Same(TxtComment), Same(<< 99, 50 >>) >> }

SauceCase(title, author, group, date, size, font, comments) ==
  [ title |-> title, author |-> author, group |-> group, date |-> date,
    size |-> size, font |-> font, comments |-> comments ]

\* every title, date and size together; every author, group, font and
\* comment block together
SauceCases ==
  { SauceCase(t, Blank, Blank, d, sz, Blank, << >>) :
      t \in TitleCases, d \in DateCases, sz \in SizeCases }
    \cup { SauceCase(Blank, a, g, Blank, [width |-> 0, height |-> 0, shown |-> << >>],
                     f, cs) :
             a \in AuthorCases, g \in GroupCases, f \in FontCases, cs \in CommentCases }

\* content, SUB, the COMNT block if there is one, the record
SauceInput(content, d) ==
  content \o << SUB >>
    \o (IF d.comments = << >> THEN << >>
        ELSE ComntBlock([ k \in 1..Len(d.comments) |-> d.comments[k].raw ]))
    \o createSauceRecord([ title |-> d.title.raw, author |-> d.author.raw,
                           group |-> d.group.raw, date |-> d.date.raw,
                           width |-> d.size.width, height |-> d.size.height,
                           font |-> d.font.raw ])

\* a record whose title is the text SAUCE00
MarkerTitle == SauceCase(Same(SauceMarker), Blank, Blank, Blank,
                         [width |-> 0, height |-> 0, shown |-> << >>], Blank, << >>)

SauceCalls ==
  { Call(SauceInput(TxtContent, d), [utf8Input |-> u, synchronetCtrlA |-> FALSE,
                                     renegadePipe |-> FALSE]) :
      d \in SauceCases \cup { MarkerTitle }, u \in BOOLEAN }

(***************************************************************************)
(* Calls that exercise the two vendor dialects.                            *)
(***************************************************************************)
\* the code bytes of processSynchronetCode: k b g c r m y w, K B G C R M Y W,
\* 0..7, H h I i N n - _, and two bytes outside the table (z, 8)
SyncCodes ==
  { 107, 98, 103, 99, 114, 109, 121, 119 } \cup { 75, 66, 71, 67, 82, 77, 89, 87 }
    \cup (48..55) \cup { 72, 104, 73, 105, 78, 110, 45, 95 } \cup { 122, 56 }

\* Ctrl-A x, then Ctrl-A y twice, then a letter
SyncCalls ==
  { Call(<< CTRL_A, x, CTRL_A, y, CTRL_A, y, 65 >>,
         [utf8Input |-> u, synchronetCtrlA |-> TRUE, renegadePipe |-> FALSE]) :
      x \in SyncCodes, y \in SyncCodes, u \in BOOLEAN }

\* nothing, |12, |20|00: the colours a pipe code is applied to
PipePrefixes == { << >>, << PIPE, 49, 50 >>, << PIPE, 50, 48, PIPE, 48, 48 >> }

\* every two-digit pipe code |00..|99, then a letter
PipeCodeCalls ==
  { Call(p \o << PIPE, 48 + a, 48 + b, 65 >>,
         [utf8Input |-> u, synchronetCtrlA |-> FALSE, renegadePipe |-> TRUE]) :
      p \in PipePrefixes, a \in 0..9, b \in 0..9, u \in BOOLEAN }

ExPipeHello == << PIPE >> \o TxtHello
ExPipe0X == << PIPE, 48, 88 >> \o TxtText
ExDoublePipeHello == << PIPE, PIPE >> \o TxtHello
ExPipe24 == << PIPE, 50, 52 >> \o TxtText
ExPipe31 == << PIPE, 51, 49 >> \o TxtText
ExPipe00Pipe28 == << PIPE, 48, 48, PIPE, 50, 56 >> \o TxtText

\* a pipe, or a pipe and a digit, broken by a byte that is not a digit:
\* after nothing, after CSI s, after |12
BrokenPipeCalls ==
  { Call(p \o << PIPE >> \o d \o << c >> \o s,
         [utf8Input |-> u, synchronetCtrlA |-> sy, renegadePipe |-> TRUE]) :
      p \in { << >>, Csi(<< >>, 115), << PIPE, 49, 50 >> },
      d \in { << >>, << 48 >>, << 57 >> },
      c \in { 72, 88, 60, PIPE, ESC, LF, CR, CTRL_A, 32, 200 },
      s \in { << >>, << 101 >> },
      u \in BOOLEAN, sy \in BOOLEAN }
    \cup { Call(in, RenegadeOptions) :
             in \in { ExPipeHello, ExPipe0X, ExDoublePipeHello,
                      ExPipe24, ExPipe31, ExPipe00Pipe28 } }

\* inputs that end inside a vendor sequence
TrailingPrefixCalls ==
  { Call(in, [utf8Input |-> u, synchronetCtrlA |-> TRUE, renegadePipe |-> TRUE]) :
      in \in { << 65, PIPE >>, << 65, CTRL_A >>, << 65, PIPE, 49 >>,
               << PIPE >>, << CTRL_A >> },
      u \in BOOLEAN }

VendorCalls == SyncCalls \cup PipeCodeCalls \cup BrokenPipeCalls \cup TrailingPrefixCalls

(***************************************************************************)
(* Calls with one CSI command: text or an escape before it, its parameter  *)
(* string, its final byte, and the letter B after it.                      *)
(***************************************************************************)
\* 'A' ESC[5C 'B'
ExCursorForward == << 65 >> \o Csi(<< 53 >>, 67) \o << 66 >>

\* n copies of X
Fill(n) == [ k \in 1..n |-> 88 ]

\* nothing, a letter, CSI s, an SGR sequence, a line two columns short of
\* the margin after an escape, and a full line with no escape
CsiPrefixes ==
  { << >>, << 65 >>, Csi(<< >>, 115), Sgr(<< 49, 59, 52, 52 >>),
    Sgr(<< >>) \o Fill(78), Fill(80) }

\* the parameter strings: empty, 0, 1, 2, 3, 5, 12, 2;5 and ;5
CsiParamStrings ==
  { << >>, << 48 >>, << 49 >>, << 50 >>, << 51 >>, << 53 >>, << 49, 50 >>,
    << 50, 59, 53 >>, << 59, 53 >> }

\* the final bytes: C J H f A B D K, the unsupported z @ ~, and m s u
CsiFinals == { 67, 74, 72, 102, 65, 66, 68, 75, 122, 64, 126, 109, 115, 117 }

CsiCalls ==
  { Call(p \o Csi(ps, f) \o << 66 >>, opts) :
      p \in CsiPrefixes, ps \in CsiParamStrings, f \in CsiFinals,
      opts \in { DefaultOptions,
                 [utf8Input |-> TRUE, synchronetCtrlA |-> TRUE, renegadePipe |-> TRUE] } }
    \cup { Call(ExCursorForward, DefaultOptions) }

(***************************************************************************)
(* Calls with a SUB byte: with no record after it, and with a record and   *)
(* a tail after the record.                                                *)
(***************************************************************************)
\* 'Visible' SUB 'Random garbage after SUB'
ExSubGarbage ==
  << 86, 105, 115, 105, 98, 108, 101, SUB >>
    \o << 82, 97, 110, 100, 111, 109, 32, 103, 97, 114, 98, 97, 103, 101 >>
    \o << 32, 97, 102, 116, 101, 114, 32, 83, 85, 66 >>

\* what stands before the SUB: nothing, text, text in red, an unfinished
\* CSI sequence, a `|`, and a line feed
SubPrefixes ==
  { << >>, << 65 >>, Sgr(<< 51, 49 >>) \o << 65 >>, << 65, ESC, 91, 51 >>,
    << 65, PIPE >>, << 65, LF >> }

\* what stands after it: nothing, text, a colour change, a second SUB
\* between two letters, `COMNT`, `SAUCE0` and a SUB
SubSuffixes ==
  { << >>, << 66 >>, Sgr(<< 51, 50 >>) \o << 66 >>, << 66, SUB, 67 >>,
    << 67, 79, 77, 78, 84, 66 >>, << 83, 65, 85, 67, 69, 48 >>, << SUB >> }

SubCalls ==
  { Call(p \o << SUB >> \o q, opts) :
      p \in SubPrefixes, q \in SubSuffixes, opts \in AllOptions }
    \cup { Call(ExSubGarbage, DefaultOptions) }

\* createSauceRecord({ title: 'Title' })
TitleSauce ==
  [ title |-> << 84, 105, 116, 108, 101 >>, author |-> << >>, group |-> << >>,
    date |-> << >>, width |-> 0, height |-> 0, font |-> << >> ]

\* 'Before SAUCE' SUB record 'Content after SAUCE record'
ExContentAfterSauce ==
  << 66, 101, 102, 111, 114, 101, 32, 83, 65, 85, 67, 69, SUB >>
    \o createSauceRecord(TitleSauce) \o TxtTail

\* what follows the record: nothing, NULs, a SUB, NULs around a SUB, text,
\* text around a SUB, text after a NUL, text after a SUB, a colour change
TailTexts ==
  { << >>, << 0, 0 >>, << SUB >>, << 0, SUB, 0 >>, << 84 >>, << 84, SUB, 85 >>,
    << 0, 84 >>, << SUB, 84 >>, Sgr(<< 51, 50 >>) \o << 84 >>, << 84, 97, 105, 108, SUB >> }

\* content, a SUB or none, a COMNT block or none, the record, and a tail
TailCalls ==
  { Call(c \o s \o b \o createSauceRecord(TitleSauce) \o t,
         [utf8Input |-> u, synchronetCtrlA |-> FALSE, renegadePipe |-> FALSE]) :
      c \in { << 65 >>, Sgr(<< 51, 49 >>) \o << 65 >> }, s \in { << SUB >>, << >> },
      b \in { << >>, ComntBlock(<< TxtComment >>) }, t \in TailTexts, u \in BOOLEAN }
    \cup { Call(ExContentAfterSauce, DefaultOptions) }

(***************************************************************************)
(* Calls with carriage returns and line feeds met in every parse state,    *)
(* and in the title of a SAUCE record.                                     *)
(***************************************************************************)
\* 'Line1' CR LF 'Line2'
ExCrLf == << 76, 105, 110, 101, 49, CR, LF, 76, 105, 110, 101, 50 >>

\* what stands before the CR or LF: nothing, a letter, ESC, an unfinished
\* CSI sequence, a vendor prefix, a pipe and a digit, CSI s, CSI 2J
LineContexts ==
  { << >>, << 65 >>, << ESC >>, << ESC, 91 >>, << ESC, 91, 51 >>, << PIPE >>,
    << PIPE, 49 >>, << CTRL_A >>, Csi(<< >>, 115), Csi(<< 50 >>, 74) }

LineCalls ==
  { Call(p \o u \o q, opts) :
      p \in LineContexts, u \in { << CR >>, << LF >>, << CR, LF >> },
      q \in { << >>, << 66 >>, << CR, 66 >> }, opts \in AllOptions }
    \cup { Call(<< 65, SUB >> \o createSauceRecord([TitleSauce EXCEPT !.title = t]) \o << CR, 66 >>,
                [utf8Input |-> u, synchronetCtrlA |-> FALSE, renegadePipe |-> FALSE]) :
             t \in { << 97, CR, 98 >>, << 97, LF, 98 >>, << CR >> }, u \in BOOLEAN }
    \cup { Call(ExCrLf, DefaultOptions) }

\* Ctrl-A 'rText' and '|04Text'
ExCtrlAText == << CTRL_A, 114, 84, 101, 120, 116 >>
ExPipe04Text == << PIPE, 48, 52, 84, 101, 120, 116 >>

\* a vendor prefix and its code after nothing, a colour change, CSI s, and
\* the other dialect's prefix, under every option combination
DialectCalls ==
  { Call(p \o v \o << 65 >>, opts) :
      p \in { << >>, Sgr(<< 51, 49 >>), Csi(<< >>, 115), << PIPE >>, << CTRL_A >> },
      v \in { << CTRL_A, 114 >>, << CTRL_A, 82 >>, << PIPE, 48, 52 >>, << PIPE, 49, 55 >>,
              << CTRL_A, PIPE, 48, 52 >>, << PIPE, CTRL_A, 114 >> },
      opts \in AllOptions }
    \cup { Call(in, opts) : in \in { ExCtrlAText, ExPipe04Text }, opts \in AllOptions }

(***************************************************************************)
(* Calls with a run of bare pipes.                                         *)
(***************************************************************************)
MaxPipes == 12

\* k pipes, and after them nothing, a letter, a digit, a digit and a letter,
\* or a digit and a pipe
PipeRunCalls ==
  { Call([ k \in 1..n |-> PIPE ] \o q, opts) :
      n \in 1..MaxPipes,
      q \in { << >>, << 65 >>, << 49 >>, << 49, 65 >>, << 49, PIPE >> },
      opts \in AllOptions }

(***************************************************************************)
(* Calls with two or three SGR sequences: the first ones set the colour    *)
(* state the last one is applied to.                                       *)
(***************************************************************************)
\* ESC[91m 'Bright Red' and ESC[1;34m 'Bold Blue'
ExBrightRed ==
  Sgr(<< 57, 49 >>) \o << 66, 114, 105, 103, 104, 116, 32, 82, 101, 100 >>
ExBoldBlue ==
  Sgr(<< 49, 59, 51, 52 >>) \o << 66, 111, 108, 100, 32, 66, 108, 117, 101 >>

\* the sequences before: none, 1, 5, 1;5, 91, 1;44, 31, 7, 100, and 1 then
\* 31, 1 then 22, 1 then 2, 1 then 39, 1 then 0
SgrBefore ==
  { << >>, Sgr(<< 49 >>), Sgr(<< 53 >>), Sgr(<< 49, 59, 53 >>), Sgr(<< 57, 49 >>),
    Sgr(<< 49, 59, 52, 52 >>), Sgr(<< 51, 49 >>), Sgr(<< 55 >>), Sgr(<< 49, 48, 48 >>),
    Sgr(<< 49 >>) \o Sgr(<< 51, 49 >>), Sgr(<< 49 >>) \o Sgr(<< 50, 50 >>),
    Sgr(<< 49 >>) \o Sgr(<< 50 >>), Sgr(<< 49 >>) \o Sgr(<< 51, 57 >>),
    Sgr(<< 49 >>) \o Sgr(<< 48 >>) }

\* the single codes: every colour code, and 0 1 2 22 5 6 25 7 39 49 8
SgrSingle ==
  (30..37) \cup (40..47) \cup (90..97) \cup (100..107)
    \cup { 0, 1, 2, 22, 5, 6, 25, 7, 39, 49, 8 }

\* the parameter strings with several codes: 31;0, 0;31, 7;7, 1;7, 7;1,
\* 1;34, 34;1, 1;31;42;5, 1;34;22, 91;31, 31;91, 5;42
SgrSeveral ==
  { << 51, 49, 59, 48 >>, << 48, 59, 51, 49 >>, << 55, 59, 55 >>, << 49, 59, 55 >>,
    << 55, 59, 49 >>, << 49, 59, 51, 52 >>, << 51, 52, 59, 49 >>,
    << 49, 59, 51, 49, 59, 52, 50, 59, 53 >>, << 49, 59, 51, 52, 59, 50, 50 >>,
    << 57, 49, 59, 51, 49 >>, << 51, 49, 59, 57, 49 >>, << 53, 59, 52, 50 >> }

SgrCalls ==
  { Call(b \o Sgr(ps) \o << 66 >>, opts) :
      b \in SgrBefore, ps \in { NumToStr(code) : code \in SgrSingle } \cup SgrSeveral,
      opts \in { DefaultOptions,
                 [utf8Input |-> TRUE, synchronetCtrlA |-> TRUE, renegadePipe |-> TRUE] } }
    \cup { Call(in, DefaultOptions) : in \in { ExBrightRed, ExBoldBlue } }

\* ESC[1m, one sequence with the code x, one with the hue code y, and B
SgrChain(x, y) ==
  Sgr(<< 49 >>) \o Sgr(NumToStr(x)) \o Sgr(NumToStr(y)) \o << 66 >>

\* the same with a vendor colour code between ESC[1m and ESC[34m
SgrChainCalls ==
  { Call(SgrChain(x, y), DefaultOptions) : x \in SgrSingle, y \in 30..37 }
    \cup { Call(Sgr(<< 49 >>) \o v \o Sgr(<< 51, 52 >>) \o << 66 >>,
                [utf8Input |-> FALSE, synchronetCtrlA |-> TRUE, renegadePipe |-> TRUE]) :
             v \in { << CTRL_A, 110 >>, << CTRL_A, 45 >>, << PIPE, 48, 52 >> } }

(***************************************************************************)
(* Calls at the edges of regions: save-position suppression around every   *)
(* kind of emission, lines longer than two margins, content that ends      *)
(* inside a suppressed region or inside a sequence before a SAUCE record,  *)
(* and SAUCE markers with no usable record.                                *)
(***************************************************************************)
\* before the region nothing, a colour and two letters, or a full line that
\* has seen an escape; the region opened by CSI s, ESC 7 or not at all; in
\* it a letter, `<`, a line feed, CSI 3C, CSI 2J, a pipe or a pipe and a
\* digit followed by a letter, a colour change in each dialect; the region
\* closed by CSI u, ESC 8 or not at all; the letter B after it
HideCalls ==
  { Call(p \o s \o h \o r \o << 66 >>, opts) :
      p \in { << >>, Sgr(<< 51, 49 >>) \o << 65, 65 >>, Sgr(<< >>) \o Fill(80) },
      s \in { << >>, Csi(<< >>, 115), << ESC, 55 >> },
      h \in { << 72 >>, << 60 >>, << LF >>, Csi(<< 51 >>, 67), Csi(<< 50 >>, 74),
              << PIPE, 72 >>, << PIPE, 49, 72 >>, Sgr(<< 51, 50 >>), << CTRL_A, 82 >>,
              << PIPE, 49, 55 >> },
      r \in { << >>, Csi(<< >>, 117), << ESC, 56 >> },
      opts \in { DefaultOptions,
                 [utf8Input |-> FALSE, synchronetCtrlA |-> TRUE, renegadePipe |-> TRUE],
                 [utf8Input |-> TRUE, synchronetCtrlA |-> TRUE, renegadePipe |-> TRUE] } }

\* an SGR sequence and 165 letters; the same line broken by a line feed
\* after 100 letters; an escape met after 100 letters; a suppressed run on a
\* full line; a pipe code broken at the margin
LongLineCalls ==
  { Call(in, opts) :
      in \in { Sgr(<< >>) \o Fill(165),
               Sgr(<< 51, 49 >>) \o Fill(100) \o << LF >> \o Fill(85),
               Fill(100) \o Csi(<< >>, 75) \o Fill(100),
               Sgr(<< >>) \o Fill(80) \o Csi(<< >>, 115) \o Fill(5) \o Csi(<< >>, 117)
                 \o Fill(81),
               Sgr(<< >>) \o Fill(79) \o << PIPE, 49, 65 >> \o Fill(80),
               Sgr(<< >>) \o Fill(78) \o Csi(<< 53 >>, 67) \o Fill(80) },
      opts \in { DefaultOptions, RenegadeOptions,
                 [utf8Input |-> TRUE, synchronetCtrlA |-> FALSE, renegadePipe |-> TRUE] } }

\* content that ends with suppression on, inside an escape or CSI sequence,
\* after a vendor prefix or after a colour change; a SUB or none; a COMNT
\* block or none; the record; a tail that is plain, restores the position,
\* or completes the sequence the content began
CarryCalls ==
  { Call(c \o s \o b \o createSauceRecord(TitleSauce) \o t, opts) :
      c \in { << 65 >>, << 65 >> \o Csi(<< >>, 115) \o << 66 >>,
              << 65, ESC, 55, LF, 66 >>, << 65 >> \o Csi(<< >>, 115) \o Csi(<< >>, 117),
              Sgr(<< 51, 49 >>) \o << 65, ESC >>, << 65, ESC, 91, 51 >>, << 65, PIPE >>,
              << 65, PIPE, 49 >>, << 65 >> \o Csi(<< >>, 115) \o Sgr(<< 51, 49 >>) },
      s \in { << SUB >>, << >> },
      b \in { << >>, ComntBlock(<< TxtComment >>) },
      t \in { << >>, << 84 >>, Csi(<< >>, 117) \o << 86 >>, << ESC, 56, 86 >>,
              << 84 >> \o Csi(<< >>, 117) \o << 86 >>, << 84, LF, 85 >>,
              << 91, 51, 50, 109, 84 >>, << 50, 109, 84 >>, << 55, 84 >> },
      opts \in { DefaultOptions,
                 [utf8Input |-> TRUE, synchronetCtrlA |-> TRUE, renegadePipe |-> TRUE] } }

\* inputs with no SUB and no usable record: no marker, `SAUCE` without `00`,
\* the marker inside and at the end of a text, the marker with 127 units
\* from its start, a COMNT block before a short record, and a marker after
\* a whole record
MarkerCalls ==
  { Call(in, [utf8Input |-> u, synchronetCtrlA |-> FALSE, renegadePipe |-> FALSE]) :
      in \in { TxtHello,
               << 72, 105, 32, 83, 65, 85, 67, 69, 32, 121, 111 >>,
               << 72, 105, 32 >> \o SauceMarker \o << 32, 121, 111 >>,
               << 72, 105, 32 >> \o SauceMarker,
               SauceMarker,
               Sgr(<< 51, 49 >>) \o << 65 >> \o SauceMarker \o Fill(120),
               << 65 >> \o ComntBlock(<< TxtComment >>) \o SauceMarker \o << 84 >>,
               << 65 >> \o createSauceRecord(TitleSauce) \o SauceMarker \o << 84 >> },
      u \in BOOLEAN }

Init == InitWith(Examples \cup MarkupCalls \cup GenCalls)
Spec == Init /\ [][Next]_vars

InitWrap == InitWith(Examples \cup WrapCalls \cup PlainCalls)
SpecWrap == InitWrap /\ [][Next]_vars

InitSauce == InitWith(Examples \cup SauceCalls)
SpecSauce == InitSauce /\ [][Next]_vars

InitVendor == InitWith(Examples \cup VendorCalls)
SpecVendor == InitVendor /\ [][Next]_vars

InitCsi == InitWith(Examples \cup CsiCalls \cup SgrCalls \cup SgrChainCalls)
SpecCsi == InitCsi /\ [][Next]_vars

InitTail == InitWith(Examples \cup SubCalls \cup TailCalls)
SpecTail == InitTail /\ [][Next]_vars

InitText == InitWith(Examples \cup LineCalls \cup DialectCalls)
SpecText == InitText /\ [][Next]_vars

InitEdge == InitWith(Examples \cup HideCalls \cup LongLineCalls \cup CarryCalls \cup MarkerCalls)
SpecEdge == InitEdge /\ [][Next]_vars

\* ansiToHtml is a synchronous call: once begun it runs on, one step after
\* another, until it returns.  Each step is taken as soon as it can be;
\* SauceBlock can be taken exactly when pc = "sauce" and is the only step
\* then, so its weak fairness is written as: pc does not stay at "sauce".
InitLive ==
  InitWith(PipeRunCalls \cup SubCalls
             \cup { Call(<< 65, SUB >> \o createSauceRecord(TitleSauce) \o << 84, SUB, 85 >>,
                         DefaultOptions) })
SpecLive ==
  /\ InitLive /\ [][Next]_vars
  /\ WF_vars(Start) /\ WF_vars(ProcessContent) /\ WF_vars(EmitSauce)
  /\ WF_vars(TailCheck) /\ WF_vars(ProcessTail) /\ WF_vars(Close)
  /\ []<>(pc # "sauce")

(***************************************************************************)
(* Properties.  Texts the claims quote are written out as code units, so   *)
(* that they do not depend on the operators they are checked against.      *)
(***************************************************************************)
StartsWith(s, p) == MatchAt(s, p, 1)
EndsWith(s, p) == MatchAt(s, p, Len(s) - Len(p) + 1)
Contains(s, p) == \E k \in 1..(Len(s) - Len(p) + 1) : MatchAt(s, p, k)

\* the lowercase hex digit of a colour value 0..15
HexLower == << 48, 49, 50, 51, 52, 53, 54, 55, 56, 57, 97, 98, 99, 100, 101, 102 >>

\* `<ans-`, `</ans-` and the tags of the default colour
TagHead == << 60, 97, 110, 115, 45 >>
CloseTagHead == << 60, 47, 97, 110, 115, 45 >>
Open07 == << 60, 97, 110, 115, 45, 48, 55, 62 >>
Close07 == << 60, 47, 97, 110, 115, 45, 48, 55, 62 >>

\* the unit the content loop or the tail loop processes next
Processing == pc \in { "content", "tail" } /\ i < Len(input)
Unit == input[i + 1]

\* the step processes a unit through the state machine
UnitStep == Processing /\ i' = i + 1

\* the returned string
Done == pc = "done"

TxtScriptEscaped ==
  << 38, 108, 116, 59 >> \o << 115, 99, 114, 105, 112, 116 >> \o << 38, 103, 116, 59 >>
    \o << 38, 97, 109, 112, 59 >>
    \o << 38, 108, 116, 59, 47 >> \o << 115, 99, 114, 105, 112, 116 >> \o << 38, 103, 116, 59 >>

\* the five entities: &lt; &gt; &amp; &quot; &apos;
Entities ==
  { << 38, 108, 116, 59 >>, << 38, 103, 116, 59 >>, << 38, 97, 109, 112, 59 >>,
    << 38, 113, 117, 111, 116, 59 >>, << 38, 97, 112, 111, 115, 59 >> }
HexDigits == { HexLower[k] : k \in 1..16 }
PreOpenText ==
  << 60, 112, 114, 101, 32, 99, 108, 97, 115, 115, 61, 34, 97, 110, 115, 105, 34, 62 >>
PreCloseText == << 60, 47, 112, 114, 101, 62 >>

\* a tag the converter generates starts at position p of s
OpenTagAt(s, p) ==
  /\ MatchAt(s, TagHead, p) /\ p + 7 <= Len(s)
  /\ s[p + 5] \in HexDigits /\ s[p + 6] \in HexDigits /\ s[p + 7] = 62
CloseTagAt(s, p) ==
  /\ MatchAt(s, CloseTagHead, p) /\ p + 8 <= Len(s)
  /\ s[p + 6] \in HexDigits /\ s[p + 7] \in HexDigits /\ s[p + 8] = 62
WellEscaped(s) ==
  \A p \in 1..Len(s) :
    /\ s[p] = 60 =>
          \/ p = 1 /\ MatchAt(s, PreOpenText, 1)
          \/ OpenTagAt(s, p) \/ CloseTagAt(s, p)
          \/ MatchAt(s, PreCloseText, p)
    /\ s[p] = 62 =>
          \/ p = Len(PreOpenText) /\ MatchAt(s, PreOpenText, 1)
          \/ OpenTagAt(s, p - 7) \/ CloseTagAt(s, p - 8)
          \/ MatchAt(s, PreCloseText, p - 5)
    /\ s[p] = 38 => \E e \in Entities : MatchAt(s, e, p)
    /\ s[p] \in { 34, 39 } => p \in { 12, 17 } /\ MatchAt(s, PreOpenText, 1)

\* C2: every `<`, `>`, `&`, `"` and `'` of the input (literal content, a
\* Renegade fallthrough, decoded SAUCE and COMNT text) reaches the output only
\* as `&lt;`, `&gt;`, `&amp;`, `&quot;`, `&apos;`; the only raw `<` and `>` of
\* the output belong to the `pre` and `ans-*` tags the converter generates.
C2_OnlyEntities ==
  /\ pc # "start" => WellEscaped(conv.output)
  /\ (Done /\ input = TxtScript /\ options = DefaultOptions
        => conv.output = PreOpen \o Open07 \o TxtScriptEscaped \o Close07 \o PreClose)

\* the record with special characters in every field has been printed, after
\* content and before a tail that hold them too
C2_Witness ==
  /\ Done /\ input = ExMarkupSauce
  /\ Contains(conv.output,
              << 84, 105, 116, 108, 101, 58, 32 >>
                \o << 38, 108, 116, 59, 98, 38, 103, 116, 59 >>
                \o << 38, 97, 109, 112, 59 >> \o << 38, 113, 117, 111, 116, 59 >>
                \o << 38, 97, 112, 111, 115, 59, LF >>)
  /\ Contains(conv.output,
              << 67, 111, 109, 109, 101, 110, 116, 58, 32, 38, 108, 116, 59, 98 >>)

\* the parameter string of a reset: empty, or its last parameter (the text
\* after the last `;`) is a number written with zeros only
ResetParams(ps) ==
  \/ ps = << >>
  \/ /\ ps[Len(ps)] = 48
     /\ \E k \in 1..Len(ps) :
          /\ k = 1 \/ ps[k - 1] = 59
          /\ \A q \in k..Len(ps) : ps[q] = 48

\* the last colour tag opened in s is `<ans-07>`
LastOpenIs07(s) ==
  \E p \in 1..Len(s) :
    /\ MatchAt(s, Open07, p)
    /\ \A q \in (p + 1)..Len(s) : ~OpenTagAt(s, q)

\* `<ans-04>Red</ans-04><ans-07>Normal`
TxtRedThenNormal ==
  << 60, 97, 110, 115, 45, 48, 52, 62, 82, 101, 100 >>
    \o << 60, 47, 97, 110, 115, 45, 48, 52, 62 >>
    \o << 60, 97, 110, 115, 45, 48, 55, 62, 78, 111, 114, 109, 97, 108 >>

Tag256Fg196 ==
  << 60, 97, 110, 115, 45, 50, 53, 54, 32, 102, 103, 61, 34, 49, 57 >>
    \o << 54, 34, 32, 98, 103, 61, 34, 98, 103, 45, 48, 34, 62, 82, 101 >>
    \o << 100, 32, 50, 53, 54, 60, 47, 97, 110, 115, 45, 50, 53, 54, 62 >>
Tag256Bg21 ==
  << 60, 97, 110, 115, 45, 50, 53, 54, 32, 102, 103, 61, 34, 102, 103 >>
    \o << 45, 55, 34, 32, 98, 103, 61, 34, 50, 49, 34, 62 >>
Tag256Both ==
  << 60, 97, 110, 115, 45, 50, 53, 54, 32, 102, 103, 61, 34, 50, 50 >>
    \o << 54, 34, 32, 98, 103, 61, 34, 50, 49, 34, 62 >>
TagRgbOrange ==
  << 60, 97, 110, 115, 45, 114, 103, 98, 32, 102, 103, 61, 34, 50, 53 >>
    \o << 53, 44, 49, 50, 56, 44, 48, 34, 32, 98, 103, 61, 34, 98, 103, 45 >>
    \o << 48, 34, 62 >>
Tag256Close ==
  << 60, 47, 97, 110, 115, 45, 50, 53, 54, 62 >>
TagRgbRed ==
  << 60, 97, 110, 115, 45, 114, 103, 98, 32, 102, 103, 61, 34, 50, 53 >>
    \o << 53, 44, 48, 44, 48, 34, 32 >>

\* C4: an SGR sequence 38;5;N (48;5;N) sets the foreground (background) to
\* palette index N, the 5 and the N being consumed with it and never applied
\* as SGR codes of their own; the text that follows is wrapped in
\* `<ans-256 fg=... bg=...>`.  From the default state ESC[38;5;196m gives
\* `<ans-256 fg="196" bg="bg-0">`, ESC[48;5;21m gives
\* `<ans-256 fg="fg-7" bg="21">`, ESC[38;5;226;48;5;21m gives
\* `<ans-256 fg="226" bg="21">`.
C4_Palette256 ==
  (Done /\ options = DefaultOptions) =>
    /\ input = ExFg256 => Contains(conv.output, Tag256Fg196)
    /\ input = ExBg256 => Contains(conv.output, Tag256Bg21)
    /\ input = ExBoth256 => Contains(conv.output, Tag256Both)

\* C5: an SGR sequence 38;2;R;G;B (48;2;R;G;B) sets the foreground
\* (background) to Rgb(R,G,B), the four parameters being consumed with it;
\* the text that follows is wrapped in `<ans-rgb fg=... bg=...>`.  From the
\* default state ESC[38;2;255;128;0m gives
\* `<ans-rgb fg="255,128,0" bg="bg-0">`, and a 256-colour foreground followed
\* by ESC[38;2;255;0;0m closes the `ans-256` tag and opens
\* `<ans-rgb fg="255,0,0" ...>`.
C5_Rgb ==
  (Done /\ options = DefaultOptions) =>
    /\ input = ExFgRgb => Contains(conv.output, TagRgbOrange)
    /\ input = Ex256ToRgb => Contains(conv.output, Tag256Close \o TagRgbRed)

\* C10: with renegadePipe enabled, `||04Text` produces output containing
\* the contiguous text `|04Text`: the doubled pipe resolves to one literal
\* `|`, and the digits 04 after it are emitted as text and do not act as
\* colour code 04.
C10_EscapedPipe ==
  (Done /\ input = ExEscapedPipe /\ options.renegadePipe) =>
    /\ Contains(conv.output, << PIPE, 48, 52, 84, 101, 120, 116 >>)
    /\ conv.foreground = 7 /\ conv.background = 0

\* n copies of the text s
Repeat(s, n) == [ k \in 1..(n * Len(s)) |-> s[((k - 1) % Len(s)) + 1] ]

\* the positions of the line feeds of s
LineFeeds(s) == { p \in 1..Len(s) : s[p] = LF }

\* what the output holds for one of the repeated characters
WrapGlyph(ch) == IF ch = 60 THEN << 38, 108, 116, 59 >> ELSE << ch >>

\* `>`, 80 characters, a line feed, the remaining characters, `</`
WrappedRun(ch) ==
  << 62 >> \o Repeat(WrapGlyph(ch), 80) \o << LF >>
    \o Repeat(WrapGlyph(ch), WrapRun - 80) \o << 60, 47 >>

\* C6: with default options, one SGR sequence (of any parameters, also one
\* that does not change the colour) followed by 85 literal printable
\* characters and no line feed produces exactly one injected line feed, placed
\* after the 80th character: the first visual line holds 80 of the characters
\* and the second the remaining 5.  The same characters with no preceding
\* escape sequence produce no line feed at all.
C6_SoftWrap ==
  (Done /\ options = DefaultOptions) =>
    \A ch \in WrapChars :
      /\ \A e \in WrapEscapes :
           input = e \o Run(ch) =>
             /\ Cardinality(LineFeeds(conv.output)) = 1
             /\ Contains(conv.output, WrappedRun(ch))
      /\ input = Run(ch) => LineFeeds(conv.output) = {}

\* the run of `<` after the empty SGR sequence has been wrapped after its
\* 80th character
C6_Witness ==
  /\ Done /\ input = Sgr(<< >>) \o Run(60)
  /\ LineFeeds(conv.output) = { Len(PreOpenText) + Len(Open07) + 80 * 4 + 1 }

\* the input has no ESC, no Ctrl-A if synchronetCtrlA is on, no `|` if
\* renegadePipe is on
NoEscapeInput ==
  \A p \in 1..Len(input) :
    /\ input[p] # ESC
    /\ options.synchronetCtrlA => input[p] # CTRL_A
    /\ options.renegadePipe => input[p] # PIPE

\* the line feeds the step appends to the output
AddedLineFeeds ==
  Cardinality(LineFeeds(conv'.output)) - Cardinality(LineFeeds(conv.output))

\* C7 as stated: for an input with no escape sequence and no enabled vendor
\* sequence the line-has-escape flag stays false and the output has no line
\* feed that the input did not have.
C7_Original ==
  NoEscapeInput =>
    /\ ~conv.lineHasAnsi
    /\ Cardinality(LineFeeds(conv.output)) <= Cardinality(LineFeeds(input))

\* C7 (amended): for an input with no escape sequence and no enabled vendor
\* sequence, however long its lines, the line-has-escape flag stays false and
\* soft wrap never fires: a processed unit adds a line feed only if it is a
\* line feed, and the only other line feeds are those of a printed SAUCE
\* record (the one forced before the block, those of the block's text, the
\* one forced before content that follows the record).
C7_NoEscapeNoWrap ==
  [][ NoEscapeInput =>
        /\ ~conv'.lineHasAnsi
        /\ CASE UnitStep -> AddedLineFeeds = (IF Unit = LF THEN 1 ELSE 0)
             [] pc = "sauce" -> AddedLineFeeds = (IF sauceOutput' # << >> THEN 1 ELSE 0)
             [] pc = "sauceout" /\ j' = j + 1 ->
                  AddedLineFeeds = (IF sauceOutput[j + 1] = LF THEN 1 ELSE 0)
             [] pc = "tailcheck" -> AddedLineFeeds = (IF pc' = "tail" THEN 1 ELSE 0)
             [] OTHER -> AddedLineFeeds = 0 ]_vars

\* a run longer than a line on each side of a printed record, and no line
\* feed but those of the record
C7_Witness ==
  /\ Done /\ NoEscapeInput /\ ~options.utf8Input
  /\ input = Run(88) \o << SUB >> \o createSauceRecord(TestSauce) \o Run(88)
  /\ Contains(conv.output, Run(88) \o << LF, 84, 105, 116, 108, 101, 58 >>)
  /\ EndsWith(conv.output, << LF >> \o Run(88) \o Close07 \o PreCloseText)
  /\ Cardinality(LineFeeds(conv.output)) = 8

\* the unit about to be processed is a literal character: the state machine
\* is in Normal state and the unit is neither ESC, nor the prefix of an
\* enabled dialect, nor a carriage return (which is dropped, not emitted)
LiteralUnit ==
  /\ conv.parseState = "Normal"
  /\ Unit \notin { ESC, CR }
  /\ ~(options.synchronetCtrlA /\ Unit = CTRL_A)
  /\ ~(options.renegadePipe /\ Unit = PIPE)

\* the unit about to be processed ends a pipe code that falls through: the
\* `|` (and the digit) and the unit itself are reprocessed as text
FallthroughUnit ==
  \/ conv.parseState = "RenegadePipe1" /\ ~(Unit \in 48..57)
  \/ conv.parseState = "RenegadePipe2" /\ ~(Unit \in 48..57)

\* the unit about to be processed switches suppression on (s, 7) or off (u, 8)
SaveUnit ==
  \/ conv.parseState = "Csi" /\ Unit = 115
  \/ conv.parseState = "Escape" /\ Unit = 55
RestoreUnit ==
  \/ conv.parseState = "Csi" /\ Unit = 117
  \/ conv.parseState = "Escape" /\ Unit = 56

\* C8: every literal character processed while save-position suppression is
\* active (from CSI s or ESC 7 until the next CSI u or ESC 8) is absent from
\* the output, and the characters processed before activation and after
\* deactivation are emitted; `Before ESC[s Hidden ESC[u After` gives output
\* containing "Before" and "After" and never "Hidden".
C8_SavePosition ==
  [][ /\ (UnitStep /\ SaveUnit) => conv'.savePositionActive
      /\ (UnitStep /\ RestoreUnit) => ~conv'.savePositionActive
      /\ ~(UnitStep /\ (SaveUnit \/ RestoreUnit))
           => conv'.savePositionActive = conv.savePositionActive
      /\ (UnitStep /\ conv.savePositionActive /\ (LiteralUnit \/ FallthroughUnit))
           => conv'.output = conv.output
      /\ (UnitStep /\ ~conv.savePositionActive /\ LiteralUnit)
           => /\ Len(conv'.output) > Len(conv.output)
              /\ StartsWith(conv'.output, conv.output)
              /\ (Unit = 65 => EndsWith(conv'.output, << 65 >>))
      /\ (pc' = "done" /\ input = ExSaveRestore /\ options = DefaultOptions)
           => /\ Contains(conv'.output, << 66, 101, 102, 111, 114, 101 >>)
              /\ Contains(conv'.output, << 65, 102, 116, 101, 114 >>)
              /\ ~Contains(conv'.output, << 72, 105, 100, 100, 101, 110 >>) ]_vars

\* the text between CSI s and CSI u has been dropped and the text on both
\* sides of it emitted
C8_Witness ==
  /\ Done /\ input = ExSaveRestore /\ ~conv.savePositionActive
  /\ conv.output = PreOpenText \o Open07
                     \o << 66, 101, 102, 111, 114, 101, 65, 102, 116, 101, 114 >>
                     \o Close07 \o PreCloseText

\* `key: value` and a line feed, or nothing for an empty value
MetaLine(key, value) ==
  IF value = << >> THEN << >> ELSE key \o << 58, 32 >> \o value \o << LF >>

RECURSIVE CommentText(_)
CommentText(comments) ==
  IF comments = << >> THEN << >>
  ELSE MetaLine(<< 67, 111, 109, 109, 101, 110, 116 >>, Head(comments).shown)
         \o CommentText(Tail(comments))

\* the lines a reader expects for a record: Title, Author, Group, Date, Size,
\* Font, then the comments
MetaText(d) ==
  MetaLine(<< 84, 105, 116, 108, 101 >>, d.title.shown)
    \o MetaLine(<< 65, 117, 116, 104, 111, 114 >>, d.author.shown)
    \o MetaLine(<< 71, 114, 111, 117, 112 >>, d.group.shown)
    \o MetaLine(<< 68, 97, 116, 101 >>, d.date.shown)
    \o MetaLine(<< 83, 105, 122, 101 >>, d.size.shown)
    \o MetaLine(<< 70, 111, 110, 116 >>, d.font.shown)
    \o CommentText(d.comments)

\* the output expected for the record of the SAUCE test, from the content on
TxtTestSauceOutput ==
  << 67, 111, 110, 116, 101, 110, 116, 10, 84, 105, 116, 108, 101, 58 >>
    \o << 32, 84, 101, 115, 116, 32, 84, 105, 116, 108, 101, 10, 65, 117 >>
    \o << 116, 104, 111, 114, 58, 32, 84, 101, 115, 116, 32, 65, 117, 116 >>
    \o << 104, 111, 114, 10, 71, 114, 111, 117, 112, 58, 32, 84, 101, 115 >>
    \o << 116, 32, 71, 114, 111, 117, 112, 10, 68, 97, 116, 101, 58, 32 >>
    \o << 50, 48, 50, 52, 45, 48, 49, 45, 49, 53, 10, 83, 105, 122, 101 >>
    \o << 58, 32, 56, 48, 120, 50, 53, 10, 70, 111, 110, 116, 58, 32, 73 >>
    \o << 66, 77, 32, 86, 71, 65, 10, 60, 47, 97, 110, 115, 45, 48, 55, 62 >>

SyncLower == << 107, 98, 103, 99, 114, 109, 121, 119 >>
SyncUpper == << 75, 66, 71, 67, 82, 77, 89, 87 >>

\* the step processes the byte that follows Ctrl-A
SyncStep ==
  UnitStep /\ options.synchronetCtrlA /\ conv.parseState = "SynchronetCtrlA"

\* a 4-bit colour value with its intensity bit set, cleared, kept
WithHigh(x) == IF x >= 8 THEN x ELSE x + 8
WithoutHigh(x) == IF x >= 8 THEN x - 8 ELSE x
HighOf(x) == IF x >= 8 THEN 8 ELSE 0

\* the colour is the default one
DefaultColour == conv.foreground = 7 /\ conv.background = 0

\* `<ans-XY>` for background digit x and foreground digit y
Tag(x, y) == TagHead \o << x, y, 62 >>

C12_UppercaseBackground ==
  [][ SyncStep =>
        /\ \A k \in 1..8 :
             Unit = SyncUpper[k] =>
               conv'.background = k - 1 /\ conv'.foreground = conv.foreground
        /\ (DefaultColour /\ Unit = 82) => EndsWith(conv'.output, Tag(52, 55))
        /\ (i = 3 /\ input[2] = 119 /\ Unit = 66)
             => EndsWith(conv'.output, Tag(49, 55))
        /\ (i = 3 /\ input[2] = 66 /\ Unit = 105)
             => EndsWith(conv'.output, Tag(57, 55)) ]_vars

\* C13: with synchronetCtrlA enabled, a foreground colour letter changes
\* only the hue and keeps the intensity bit set by Ctrl-A h: Ctrl-A h then
\* Ctrl-A b gives foreground 9 (`<ans-09>`), as Ctrl-A b then Ctrl-A h does.
C13_IntensityKept ==
  [][ SyncStep =>
        /\ \A k \in 1..8 :
             Unit = SyncLower[k] =>
               conv'.foreground = HighOf(conv.foreground) + (k - 1)
        /\ (i = 3 /\ input[2] = 104 /\ Unit = 98)
             => conv'.foreground = 9 /\ EndsWith(conv'.output, Tag(48, 57))
        /\ (i = 3 /\ input[2] = 98 /\ Unit = 104)
             => conv'.foreground = 9 /\ EndsWith(conv'.output, Tag(48, 57)) ]_vars

\* C14: every Synchronet code is idempotent: in every reachable colour
\* state, processing Ctrl-A c a second time in a row leaves foreground and
\* background as the first left them and emits no tag; Ctrl-A b, Ctrl-A h,
\* Ctrl-A h gives foreground 9, h and i setting a bit, not toggling it.
C14_Idempotent ==
  [][ (SyncStep /\ i >= 3 /\ input[i] = CTRL_A /\ input[i - 1] = Unit
         /\ input[i - 2] = CTRL_A)
        => /\ conv'.foreground = conv.foreground
           /\ conv'.background = conv.background
           /\ conv'.output = conv.output
           /\ (i = 5 /\ input[2] = 98 /\ Unit = 104) => conv'.foreground = 9 ]_vars

\* Ctrl-A b, Ctrl-A h, Ctrl-A h have been processed: one `<ans-09>`, opened
\* by the first h
C14_Witness ==
  /\ Processing /\ i = 6 /\ options.synchronetCtrlA
  /\ input[2] = 98 /\ input[4] = 104 /\ input[6] = 104
  /\ conv.foreground = 9
  /\ EndsWith(conv.output, << 60, 47, 97, 110, 115, 45, 48, 49, 62 >> \o Tag(48, 57))

\* the step processes the second digit of a pipe code; the first digit is
\* the unit before it
PipeCodeStep ==
  /\ UnitStep /\ options.renegadePipe /\ conv.parseState = "RenegadePipe2"
  /\ Unit \in 48..57 /\ i >= 2 /\ input[i] \in 48..57 /\ input[i - 1] = PIPE
PipeCode == (input[i] - 48) * 10 + (Unit - 48)

\* what a colour change appends: the closing tag of the old colour and the
\* opening tag of the new one, or nothing if the colour is the same
ColourTags(bg, fg, newBg, newFg) ==
  IF bg = newBg /\ fg = newFg THEN << >>
  ELSE CloseTagHead \o << HexLower[bg + 1], HexLower[fg + 1], 62 >>
         \o Tag(HexLower[newBg + 1], HexLower[newFg + 1])

\* the step changes the output by the tags of its colour change only
OnlyColourTags ==
  conv'.output = conv.output \o ColourTags(conv.background, conv.foreground,
                                           conv'.background, conv'.foreground)

\* the step consumes the `|` or the first digit of a pipe code
PipePrefixStep ==
  /\ UnitStep /\ options.renegadePipe
  /\ \/ conv.parseState = "Normal" /\ Unit = PIPE
     \/ conv.parseState = "RenegadePipe1" /\ Unit \in 48..57

\* C15: with renegadePipe enabled, `|` and two digits forming n set the
\* foreground to n for 0 <= n <= 15 (background unchanged) and the
\* background to n - 16 for 16 <= n <= 23 (foreground unchanged); from the
\* default state |04 gives `<ans-04>`, |12 `<ans-0c>`, |17 `<ans-17>`; none
\* of the three characters is emitted as text.
C15_PipeCodes ==
  [][ /\ PipePrefixStep => conv'.output = conv.output
      /\ (PipeCodeStep /\ PipeCode <= 23) =>
           /\ PipeCode <= 15 =>
                conv'.foreground = PipeCode /\ conv'.background = conv.background
           /\ PipeCode >= 16 =>
                conv'.background = PipeCode - 16 /\ conv'.foreground = conv.foreground
           /\ OnlyColourTags
           /\ (DefaultColour /\ PipeCode = 4) => EndsWith(conv'.output, Tag(48, 52))
           /\ (DefaultColour /\ PipeCode = 12) => EndsWith(conv'.output, Tag(48, 99))
           /\ (DefaultColour /\ PipeCode = 17) => EndsWith(conv'.output, Tag(49, 55)) ]_vars

\* |12 has just been applied to the default colour
C15_Witness ==
  /\ Processing /\ i = 3 /\ options.renegadePipe
  /\ input[1] = PIPE /\ input[2] = 49 /\ input[3] = 50
  /\ conv.foreground = 12 /\ conv.background = 0
  /\ conv.output = PreOpenText \o Open07 \o Close07 \o Tag(48, 99)

C17_HighBackground ==
  [][ /\ (PipeCodeStep /\ PipeCode >= 24 /\ PipeCode <= 31) =>
           conv'.background = PipeCode - 16 /\ conv'.foreground = conv.foreground
      /\ (pc' = "done" /\ options = RenegadeOptions) =>
           /\ input = ExPipe24 => Contains(conv'.output, Tag(56, 55))
           /\ input = ExPipe31 => Contains(conv'.output, Tag(102, 55))
           /\ input = ExPipe00Pipe28 => Contains(conv'.output, Tag(99, 48)) ]_vars

\* C18: if the input ends while the parser waits for the rest of a vendor
\* sequence (a trailing `|` with renegadePipe enabled, a trailing Ctrl-A with
\* synchronetCtrlA enabled), the prefix is flushed to the output as a
\* literal character before the closing colour tag: no input character is
\* lost at end of input.
C18_TrailingPrefix ==
  Done =>
    /\ (options.renegadePipe /\ input \in { << PIPE >>, << 65, PIPE >> })
         => EndsWith(conv.output, << PIPE >> \o Close07 \o PreCloseText)
    /\ (options.synchronetCtrlA /\ input \in { << CTRL_A >>, << 65, CTRL_A >> })
         => \E ch \in { CTRL_A, 9786 } :
              EndsWith(conv.output, << ch >> \o Close07 \o PreCloseText)

\* the bytes that break a pipe code in the calls, and what Normal state does
\* with each: the text it writes and the state it moves to
Breakers == { 72, 88, 101, 60, PIPE, ESC, LF, CR, CTRL_A, 32, 200 }
BreakerText(ch) ==
  CASE ch \in { ESC, CR, PIPE } -> << >>
    [] ch = CTRL_A -> IF options.synchronetCtrlA THEN << >> ELSE << 9786 >>
    [] ch = 60 -> << 38, 108, 116, 59 >>
    [] ch = 200 -> IF options.utf8Input THEN << 200 >> ELSE << 9562 >>
    [] OTHER -> << ch >>
BreakerState(ch) ==
  CASE ch = ESC -> "Escape"
    [] ch = PIPE -> "RenegadePipe1"
    [] ch = CTRL_A /\ options.synchronetCtrlA -> "SynchronetCtrlA"
    [] OTHER -> "Normal"

\* the step processes a byte that is not a digit after `|`, or after `|` and
\* a digit (the unit before it)
BrokenStep1 ==
  /\ UnitStep /\ options.renegadePipe /\ conv.parseState = "RenegadePipe1"
  /\ Unit \in Breakers
BrokenStep2 ==
  /\ UnitStep /\ options.renegadePipe /\ conv.parseState = "RenegadePipe2"
  /\ Unit \in Breakers /\ i >= 2 /\ input[i] \in 48..57

\* no soft wrap can fall inside the text the step writes
RoomOnLine == ~conv.lineHasAnsi \/ conv.currentColumn + 3 <= 80

C20_DoubledPipe ==
  [][ /\ (UnitStep /\ options.renegadePipe /\ conv.parseState = "RenegadePipe1"
            /\ Unit = PIPE)
           => conv'.parseState = "Normal"
      /\ (pc' = "done" /\ input = ExDoublePipeHello /\ options = RenegadeOptions)
           => conv'.output = PreOpenText \o Open07 \o << PIPE >> \o TxtHello
                               \o Close07 \o PreCloseText ]_vars

\* the step dispatches a CSI command: the unit is a final byte met in Csi
\* state, and Parameters is the parameter string collected before it
CsiStep == UnitStep /\ conv.parseState = "Csi" /\ Unit \in 64..126
Parameters == conv.csiParams

\* the value of the first parameter, 0 when it is missing
RECURSIVE LeadingValue(_, _)
LeadingValue(s, acc) ==
  IF s = << >> \/ s[1] \notin 48..57 THEN acc
  ELSE LeadingValue(Tail(s), 10 * acc + s[1] - 48)
FirstParameter == LeadingValue(Parameters, 0)

\* the final bytes that write nothing: H f A B D K and every byte that is
\* not a supported command (m, J, s, u and C are the others)
QuietFinals == (64..126) \ { 109, 74, 115, 117, 67 }

Spaces(n) == [ k \in 1..n |-> 32 ]

\* the step keeps the colour state
SameColour ==
  conv'.foreground = conv.foreground /\ conv'.background = conv.background

\* C21: CSI commands have exactly these effects on the output: `C` with
\* first parameter n emits max(1, n) spaces (a missing or zero parameter
\* gives one; `A ESC[5C B` gives `A     B`); `J` with parameter 2 or 3 emits
\* exactly three line feeds and with any other or no parameter nothing; `H`,
\* `f`, `A`, `B`, `D`, `K` and every unrecognised final byte emit nothing;
\* none of these commands changes the colour state.  What is emitted is
\* subject to save-position suppression and the spaces to soft wrap, as
\* every emitted character is.
C21_CsiCommands ==
  [][ /\ (CsiStep /\ Unit \in QuietFinals \cup { 67, 74 }) =>
           /\ SameColour
           /\ conv.savePositionActive => conv'.output = conv.output
      /\ (CsiStep /\ Unit = 67 /\ ~conv.savePositionActive) =>
           LET n == IF FirstParameter >= 1 THEN FirstParameter ELSE 1
           IN  /\ \/ conv'.output = conv.output \o Spaces(n)
                  \/ \E k \in 0..(n - 1) :
                       conv'.output = conv.output \o Spaces(k) \o << LF >>
                                        \o Spaces(n - k)
               /\ conv.currentColumn + n <= 80 =>
                    conv'.output = conv.output \o Spaces(n)
      /\ (CsiStep /\ Unit = 74 /\ ~conv.savePositionActive) =>
           IF FirstParameter \in { 2, 3 }
           THEN conv'.output = conv.output \o << LF, LF, LF >>
           ELSE conv'.output = conv.output
      /\ (CsiStep /\ Unit \in QuietFinals) => conv'.output = conv.output
      /\ (pc' = "done" /\ input = ExCursorForward) =>
           conv'.output = PreOpenText \o Open07 \o << 65 >> \o Spaces(5) \o << 66 >>
                            \o Close07 \o PreCloseText ]_vars

\* `A ESC[5C B` has been converted: five spaces stand between A and B
C21_Witness ==
  /\ Done /\ input = ExCursorForward
  /\ Contains(conv.output, << 65, 32, 32, 32, 32, 32, 66 >>)

\* the input holds a SUB byte, and FirstSub is the 1-based place of the
\* first one
HasSub == \E k \in 1..Len(input) : input[k] = SUB
FirstSub ==
  CHOOSE k \in 1..Len(input) :
    input[k] = SUB /\ \A q \in 1..(k - 1) : input[q] # SUB

\* `SAUCE00`
MarkerText == << 83, 65, 85, 67, 69, 48, 48 >>
HasMarker == Contains(input, MarkerText)

\* the closing tag of the colour conv holds
ClosingTag ==
  CloseTagHead \o << HexLower[conv.background + 1], HexLower[conv.foreground + 1], 62 >>

\* C22: when the input contains a SUB byte and no `SAUCE00` marker,
\* processing stops at the first SUB: no input unit at or after the first
\* SUB is processed by the state machine or appears in the output, and the
\* output is closed with the colour in force just before the SUB.
C22_StopAtSub ==
  [][ (HasSub /\ ~HasMarker) =>
        /\ UnitStep => i + 1 < FirstSub
        /\ pc' \in { "content", "close", "done" }
        /\ conv' # conv => (pc = "start" \/ UnitStep \/ pc = "close")
        /\ pc = "close" =>
             /\ i = FirstSub - 1
             /\ conv'.output = conv.output \o ClosingTag \o PreCloseText
        /\ (pc' = "done" /\ input = ExSubGarbage) =>
             conv'.output = PreOpenText \o Open07
                              \o << 86, 105, 115, 105, 98, 108, 101 >>
                              \o Close07 \o PreCloseText ]_vars

\* a red A, a SUB and a green B have been converted: the output ends with
\* the A and the closing tag of red
C22_Witness ==
  /\ Done /\ HasSub /\ ~HasMarker
  /\ input = Sgr(<< 51, 49 >>) \o << 65, SUB >> \o Sgr(<< 51, 50 >>) \o << 66 >>
  /\ conv.output = PreOpenText \o Open07 \o Close07 \o Tag(48, 52) \o << 65 >>
                     \o CloseTagHead \o << 48, 52, 62 >> \o PreCloseText

\* the record found in the input: the 1-based place of the last `SAUCE00`,
\* and of the first unit after the 128 bytes that begin there
MarkerPlace ==
  CHOOSE p \in 1..Len(input) :
    /\ MatchAt(input, MarkerText, p)
    /\ \A q \in (p + 1)..Len(input) : ~MatchAt(input, MarkerText, q)
TailPlace == MarkerPlace + 128

\* the tail holds a unit that is neither NUL nor SUB
MeaningfulTail == \E k \in TailPlace..Len(input) : input[k] \notin { 0, SUB }

\* the place of the first SUB of the tail, or the place after the last unit
TailStop ==
  IF \E k \in TailPlace..Len(input) : input[k] = SUB
  THEN CHOOSE k \in TailPlace..Len(input) :
         input[k] = SUB /\ \A q \in TailPlace..(k - 1) : input[q] # SUB
  ELSE Len(input) + 1

\* C23: when a SAUCE record is found, the input after its 128 bytes is
\* processed by the state machine if and only if it contains at least one
\* unit that is neither 0x00 nor 0x1A; in that case one line feed is emitted
\* first, then the tail is processed unit by unit in order, and processing
\* ends at the first SUB found in the tail (units after that SUB are never
\* output).  The order in the output is always: content, SAUCE metadata
\* lines, tail.
C23_TailAfterRecord ==
  [][ HasMarker =>
        /\ (UnitStep /\ i + 1 >= TailPlace) =>
             MeaningfulTail /\ pc = "tail" /\ i + 1 < TailStop
        /\ (UnitStep /\ pc = "content") => i + 1 < MarkerPlace
        /\ (pc = "tailcheck" /\ MeaningfulTail /\ ~conv.savePositionActive) =>
             /\ conv'.output = conv.output \o << LF >>
             /\ pc' = "tail" /\ i' = TailPlace - 1
        /\ (pc = "tailcheck" /\ ~MeaningfulTail) => conv' = conv /\ pc' = "close"
        /\ pc \in { "sauce", "sauceout" } => pc' \in { "sauceout", "tailcheck" }
        /\ (pc = "close" /\ MeaningfulTail) => i = TailStop - 1
        /\ (pc' = "done" /\ input = ExContentAfterSauce) =>
             conv'.output = PreOpenText \o Open07
                              \o << 66, 101, 102, 111, 114, 101, 32, 83, 65, 85, 67, 69, LF >>
                              \o << 84, 105, 116, 108, 101, 58, 32, 84, 105, 116, 108, 101, LF, LF >>
                              \o TxtTail \o Close07 \o PreCloseText ]_vars

\* C24: the output never contains a carriage return, for any input in
\* either mode and with any options; a line feed processed in Normal state
\* while suppression is inactive is written to the output as exactly one
\* line feed, so `Line1 CR LF Line2` gives `Line1 LF Line2`.
C24_NoCarriageReturn ==
  [][ /\ \A k \in 1..Len(conv'.output) : conv'.output[k] # CR
      /\ (UnitStep /\ conv.parseState = "Normal" /\ Unit = LF
            /\ ~conv.savePositionActive)
           => conv'.output = conv.output \o << LF >>
      /\ (UnitStep /\ conv.parseState = "Normal" /\ Unit = CR) => conv' = conv
      /\ (pc' = "done" /\ input = ExCrLf) =>
           conv'.output = PreOpenText \o Open07
                            \o << 76, 105, 110, 101, 49, LF, 76, 105, 110, 101, 50 >>
                            \o Close07 \o PreCloseText ]_vars

\* `A CR LF CR B` has been converted to A, one line feed and B
C24_Witness ==
  /\ Done /\ input = << 65, CR, LF, CR, 66 >>
  /\ conv.output = PreOpenText \o Open07 \o << 65, LF, 66 >> \o Close07 \o PreCloseText

\* C25: the two vendor dialects are off by default and independent of each
\* other: with synchronetCtrlA unset the parser never enters
\* SynchronetCtrlA, byte 0x01 is emitted as the CP437 glyph U+263A and the
\* next unit is processed normally (Ctrl-A `rText` gives the smiley and
\* `rText`, no colour change); with renegadePipe unset the parser never
\* enters RenegadePipe1 or RenegadePipe2 and `|04Text` is emitted literally
\* with no colour change; enabling one dialect does not change how the
\* other dialect's prefix is handled.
C25_DialectsOff ==
  [][ /\ ~options.synchronetCtrlA => conv'.parseState # "SynchronetCtrlA"
      /\ ~options.renegadePipe =>
           conv'.parseState \notin { "RenegadePipe1", "RenegadePipe2" }
      /\ (UnitStep /\ conv.parseState = "Normal" /\ Unit = CTRL_A
            /\ ~options.synchronetCtrlA) =>
           /\ SameColour /\ conv'.parseState = "Normal"
           /\ (~conv.savePositionActive /\ RoomOnLine) =>
                conv'.output = conv.output \o << 9786 >>
      /\ (UnitStep /\ conv.parseState = "Normal" /\ Unit = PIPE
            /\ ~options.renegadePipe) =>
           /\ SameColour /\ conv'.parseState = "Normal"
           /\ (~conv.savePositionActive /\ RoomOnLine) =>
                conv'.output = conv.output \o << PIPE >>
      /\ (pc' = "done" /\ input = ExCtrlAText /\ ~options.synchronetCtrlA) =>
           conv'.output = PreOpenText \o Open07 \o << 9786, 114 >> \o TxtText
                            \o Close07 \o PreCloseText
      /\ (pc' = "done" /\ input = ExPipe04Text /\ ~options.renegadePipe) =>
           conv'.output = PreOpenText \o Open07 \o << PIPE, 48, 52 >> \o TxtText
                            \o Close07 \o PreCloseText ]_vars

\* with only the Synchronet dialect enabled, `|04` after ESC[31m has been
\* written out as text, in red
C25_Witness ==
  /\ Done /\ options = SyncOptions
  /\ input = Sgr(<< 51, 49 >>) \o << PIPE, 48, 52, 65 >>
  /\ conv.output = PreOpenText \o Open07 \o Close07 \o Tag(48, 52)
                     \o << PIPE, 48, 52, 65 >> \o CloseTagHead \o << 48, 52, 62 >>
                     \o PreCloseText

\* the state in which a fallthrough re-enters the dispatch function: the
\* pipe, and the digit kept from RenegadePipe2, emitted and the parser back
\* in Normal state
Reentry ==
  [ (IF conv.parseState = "RenegadePipe1" THEN emitChar(conv, PIPE)
     ELSE emitChar(emitChar(conv, PIPE), 48 + conv.renegadeFirstDigit))
      EXCEPT !.parseState = "Normal" ]

\* C26: ansiToHtml terminates for every finite input in both modes and with
\* every option combination: each input unit is taken exactly once by the
\* main loop, and the reprocessing of a unit after a Renegade fallthrough
\* re-enters the dispatch function in Normal state, which never reprocesses,
\* so the re-entry depth is at most one per input unit even on a long run of
\* bare `|` characters.
C26_Terminates ==
  /\ <>Done
  /\ [][ /\ pc = "content" => i' = i + 1 /\ i < contentEnd /\ contentEnd <= Len(input)
         /\ (pc # "content" /\ pc' = "content") => i' = 0
         /\ (pc = "content" /\ pc' # "content") => i' = contentEnd
         /\ pc = "tail" => i' \in { i, i + 1 } /\ (i' = i => pc' = "close")
         /\ (UnitStep /\ FallthroughUnit) =>
              /\ Reentry.parseState = "Normal"
              /\ conv' = ProcessUnit(Reentry, options, Unit)
              /\ conv'.parseState \in { "Normal", "Escape", "SynchronetCtrlA",
                                        "RenegadePipe1" }
         /\ (UnitStep /\ conv.parseState = "Normal") =>
              conv'.renegadeFirstDigit = conv.renegadeFirstDigit ]_vars

\* a run of MaxPipes pipes followed by `1|` has been converted with the pipe
\* dialect enabled: the pipes and the digit are in the output
C26_Witness ==
  /\ Done /\ options = RenegadeOptions
  /\ input = [ k \in 1..MaxPipes |-> PIPE ] \o << 49, PIPE >>
  /\ conv.output = PreOpenText \o Open07 \o [ k \in 1..MaxPipes |-> PIPE ] \o << 49 >>
                     \o Close07 \o PreCloseText

\* no `<` stands in s from position a to position b
NoTagIn(s, a, b) == \A r \in a..b : s[r] # 60

SgrStep == UnitStep /\ conv.parseState = "Csi" /\ Unit = 109

\* the colour state after the step, as << background, foreground >>
ColourAfter == << conv'.background, conv'.foreground >>

\* C28: one SGR sequence, whatever the number of its parameters, is
\* committed atomically: its parameters are applied left to right to a
\* working copy, and only after the last one is at most one closing tag plus
\* one opening tag emitted; if the resulting (background, foreground) pair
\* equals the pair before the sequence (ESC[31;0m from the default state,
\* ESC[7;7m from any state) nothing is written to the output.
C28_SgrAtomic ==
  [][ SgrStep =>
        /\ OnlyColourTags
        /\ (conv'.background = conv.background /\ conv'.foreground = conv.foreground)
             => conv'.output = conv.output
        /\ Parameters = << 55, 59, 55 >> => conv'.output = conv.output
        /\ Parameters = << 51, 49, 59, 48 >> =>
             /\ ColourAfter = << 0, 7 >>
             /\ DefaultColour => conv'.output = conv.output
        /\ Parameters = << 48, 59, 51, 49 >> => ColourAfter = << 0, 4 >>
        /\ (Parameters = << 49, 59, 55 >> /\ DefaultColour) => ColourAfter = << 15, 0 >>
        /\ (Parameters = << 55, 59, 49 >> /\ DefaultColour) => ColourAfter = << 7, 8 >>
        /\ (Parameters = << 49, 59, 51, 49, 59, 52, 50, 59, 53 >> /\ DefaultColour) =>
             conv'.output = conv.output \o Close07 \o Tag(97, 99) ]_vars

\* ESC[1;31;42;5m has been committed to the default colour: one closing tag
\* and one opening tag, of blinking green behind light red, were written
C28_Witness ==
  /\ Processing /\ conv.parseState = "Normal"
  /\ input = Sgr(<< 49, 59, 51, 49, 59, 52, 50, 59, 53 >>) \o << 66 >>
  /\ i = Len(input) - 1
  /\ conv.output = PreOpenText \o Open07 \o Close07 \o Tag(97, 99)

\* the ANSI-to-CGA remap of the hues 0..7
Remap == << 0, 4, 2, 6, 1, 5, 3, 7 >>

\* the step commits an SGR sequence with the single code FirstParameter
SingleSgrStep ==
  /\ SgrStep /\ Parameters # << >>
  /\ \A k \in 1..Len(Parameters) : Parameters[k] \in 48..57

\* bit 3 of a colour value, and the value without it
Intensity(x) == 8 * (x \div 8)

\* what the hue codes and the bright codes do to the two channels, and the
\* two orders of 1 and 34
HueCodes ==
  /\ (SingleSgrStep /\ FirstParameter \in 30..37) =>
       /\ conv'.foreground = Intensity(conv.foreground) + Remap[FirstParameter - 29]
       /\ conv'.background = conv.background
  /\ (SingleSgrStep /\ FirstParameter \in 40..47) =>
       /\ conv'.background = Intensity(conv.background) + Remap[FirstParameter - 39]
       /\ conv'.foreground = conv.foreground
  /\ (SingleSgrStep /\ FirstParameter \in 90..97) =>
       /\ conv'.foreground = 8 + Remap[FirstParameter - 89]
       /\ conv'.background = conv.background
  /\ (SingleSgrStep /\ FirstParameter \in 100..107) =>
       /\ conv'.background = 8 + Remap[FirstParameter - 99]
       /\ conv'.foreground = conv.foreground
  /\ (SgrStep /\ Parameters \in { << 49, 59, 51, 52 >>, << 51, 52, 59, 49 >> }) =>
       conv'.foreground = 9
  /\ (SingleSgrStep /\ FirstParameter = 1) => conv'.foreground >= 8
  /\ (SingleSgrStep /\ FirstParameter \in { 2, 22, 39, 0 }) => conv'.foreground < 8
  /\ (pc' = "done" /\ input = ExBrightRed) => Contains(conv'.output, Tag(48, 99))
  /\ (pc' = "done" /\ input = ExBoldBlue) => Contains(conv'.output, Tag(48, 57))

\* the call returns for ESC[1m, a sequence with the code x, and a sequence
\* with the hue code y
ChainDone(x, y) == pc' = "done" /\ input = SgrChain(x, y)

\* C29 as stated: SGR 30-37 and 40-47 change only the low three bits of
\* their channel, through the fixed ANSI-to-CGA remap, and preserve bit 3 of
\* that channel: ESC[1;34m and ESC[34;1m both give foreground 9, and once
\* SGR 1 has been applied every later 30-37 keeps the foreground bright
\* until 2, 22, 39 or 0 clears it; SGR 90-97 and 100-107 set the whole 4-bit
\* value (8 + remapped hue) regardless of the previous bit 3.
C29_Original ==
  [][ /\ HueCodes
      /\ \A x \in SgrSingle \ { 2, 22, 39, 0 } : \A y \in 30..37 :
           ChainDone(x, y) => conv'.foreground = 8 + Remap[y - 29] ]_vars

\* C29: the same, where the foreground stays bright through every later
\* 30-37 until 2, 22, 39 or 0 clears the bit or reverse video (7) exchanges
\* the foreground with the background.
C29_HuePreservesIntensity ==
  [][ /\ HueCodes
      /\ \A x \in SgrSingle \ { 2, 22, 39, 0, 7 } : \A y \in 30..37 :
           ChainDone(x, y) => conv'.foreground = 8 + Remap[y - 29]
      /\ \A x \in { 2, 22, 39, 0 } : \A y \in 30..37 :
           ChainDone(x, y) => conv'.foreground = Remap[y - 29]
      /\ \A y \in 30..37 :
           ChainDone(7, y) =>
             conv'.foreground = Remap[y - 29] /\ conv'.background = 15 ]_vars

\* ESC[1m, ESC[32m and ESC[34m have been converted: the foreground is light
\* blue
C29_Witness ==
  /\ Done /\ input = SgrChain(32, 34)
  /\ conv.foreground = 9 /\ conv.background = 0
  /\ EndsWith(conv.output, Tag(48, 57) \o << 66 >> \o CloseTagHead \o << 48, 57, 62 >>
                             \o PreCloseText)

\* the step dispatches `J` with parameter 2 or 3 while suppression is
\* inactive: its three line feeds are written
ClearScreenStep ==
  CsiStep /\ Unit = 74 /\ FirstParameter \in { 2, 3 } /\ ~conv.savePositionActive

\* a letter B processed at the margin of a line that has seen an escape is
\* written after a line feed
WrapsAtMargin ==
  (UnitStep /\ conv.parseState = "Normal" /\ Unit = 66 /\ ~conv.savePositionActive
     /\ conv.lineHasAnsi /\ conv.currentColumn >= 80)
    => conv'.output = conv.output \o << LF, 66 >>

\* C30 as stated: after the dispatch of any CSI command - any final byte in
\* 0x40-0x7E, recognised or not, including `J` with parameter 2 or 3 - the
\* line-has-escape flag is true, so soft wrap is enabled for the characters
\* that follow on that line.
C30_Original ==
  [][ (CsiStep => conv'.lineHasAnsi) /\ WrapsAtMargin ]_vars

\* C30: after the dispatch of any CSI command, recognised or not, the
\* line-has-escape flag is true, so soft wrap is enabled for the characters
\* that follow on that line - except after `J` with parameter 2 or 3 outside
\* save-position suppression, whose three line feeds clear the flag again
\* and leave the column at 0.
C30_EscapeFlag ==
  [][ /\ (CsiStep /\ ~ClearScreenStep) => conv'.lineHasAnsi
      /\ ClearScreenStep => ~conv'.lineHasAnsi /\ conv'.currentColumn = 0
      /\ WrapsAtMargin ]_vars

\* eighty X, ESC[K and B have been converted: B stands on a line of its own
C30_Witness ==
  /\ Done /\ input = Fill(80) \o Csi(<< >>, 75) \o << 66 >>
  /\ conv.output = PreOpenText \o Open07 \o Fill(80) \o << LF, 66 >> \o Close07
                     \o PreCloseText

\* the step processes a literal line feed in Normal state
LineFeedStep == UnitStep /\ conv.parseState = "Normal" /\ Unit = LF

\* a literal character other than a line feed, processed on a line that has
\* seen no escape, is written with no line feed before it; and only a step
\* of an escape sequence or of a vendor colour code sets the flag
NoWrapWithoutEscape ==
  /\ (UnitStep /\ LiteralUnit /\ Unit # LF /\ ~conv.savePositionActive
        /\ ~conv.lineHasAnsi)
       => /\ Len(conv'.output) > Len(conv.output)
          /\ conv'.output[Len(conv.output) + 1] # LF
          /\ ~conv'.lineHasAnsi
  /\ (UnitStep /\ ~conv.lineHasAnsi /\ conv'.lineHasAnsi)
       => conv.parseState \in { "Escape", "Csi", "SynchronetCtrlA", "RenegadePipe2" }

\* C31 as stated: whenever a literal line feed is processed in Normal state,
\* the column counter becomes 0 and the line-has-escape flag becomes false,
\* whatever the state of the converter at that moment (including while
\* save-position suppression is active), so the line after a line feed never
\* soft-wraps unless it sees an escape of its own.
C31_Original ==
  [][ /\ LineFeedStep => conv'.currentColumn = 0 /\ ~conv'.lineHasAnsi
      /\ NoWrapWithoutEscape ]_vars

\* C31: whenever a literal line feed is processed in Normal state while
\* save-position suppression is inactive, the line feed is written, the
\* column counter becomes 0 and the line-has-escape flag becomes false, so
\* the line after a line feed never soft-wraps unless it sees an escape of
\* its own; while suppression is active the line feed is discarded and the
\* column counter and the flag are left unchanged.
C31_LineFeed ==
  [][ /\ (LineFeedStep /\ ~conv.savePositionActive)
           => /\ conv'.currentColumn = 0 /\ ~conv'.lineHasAnsi
              /\ conv'.output = conv.output \o << LF >>
      /\ (LineFeedStep /\ conv.savePositionActive) => conv' = conv
      /\ NoWrapWithoutEscape ]_vars

\* ESC[31m, 100 letters, a line feed and 85 letters have been converted: the
\* first line is wrapped at the margin, the second is not
C31_Witness ==
  /\ Done /\ options = DefaultOptions
  /\ input = Sgr(<< 51, 49 >>) \o Fill(100) \o << LF >> \o Fill(85)
  /\ conv.output = PreOpenText \o Open07 \o Close07 \o Tag(48, 52)
                     \o Fill(80) \o << LF >> \o Fill(20) \o << LF >> \o Fill(85)
                     \o CloseTagHead \o << 48, 52, 62 >> \o PreCloseText

\* the unit about to be processed makes the converter emit characters: a
\* literal character or line feed, a broken pipe code, CSI C, CSI J
EmittingUnit ==
  \/ LiteralUnit
  \/ FallthroughUnit
  \/ conv.parseState = "Csi" /\ Unit \in { 67, 74 }

\* the output string, the column counter and the line-has-escape flag
Written(c) == << c.output, c.currentColumn, c.lineHasAnsi >>

\* C32: while save-position suppression is active, emitting any character -
\* a literal character, a line feed, a space produced by CSI C, a line feed
\* produced by CSI J, or a `|`/digit re-emitted by a Renegade fallthrough -
\* leaves the output string, the column counter and the line-has-escape flag
\* unchanged: suppressed text is discarded and not counted towards column 80.
C32_SuppressedEmission ==
  [][ (UnitStep /\ conv.savePositionActive /\ EmittingUnit)
        => Written(conv') = Written(conv) ]_vars

\* a full line, five suppressed letters and 81 letters have been converted:
\* the second line is as long as the first
C32_Witness ==
  /\ Done /\ options = DefaultOptions
  /\ input = Sgr(<< >>) \o Fill(80) \o Csi(<< >>, 115) \o Fill(5) \o Csi(<< >>, 117)
               \o Fill(81)
  /\ conv.output = PreOpenText \o Open07 \o Fill(80) \o << LF >> \o Fill(80)
                     \o << LF, 88 >> \o Close07 \o PreCloseText

\* the parser state with its buffers, and the colour
Control(c) ==
  << c.parseState, c.csiParams, c.renegadeFirstDigit, c.foreground, c.background >>

\* the converters that agree with c on parser and colour and differ in the
\* suppression flag, the line-has-escape flag, the column or the output
Ghosts(c) ==
  { [c EXCEPT !.savePositionActive = s, !.lineHasAnsi = l, !.currentColumn = col,
              !.output = o] :
      s \in BOOLEAN, l \in BOOLEAN, col \in { c.currentColumn, 0, 80 },
      o \in { c.output, << >> } }

\* what a step from c to d appended to the output
Appended(c, d) == SubSeq(d.output, Len(c.output) + 1, Len(d.output))

\* the tags in what a step appended: a step writes tags or text, and text
\* holds no `<`
TagsOf(s) == IF \E k \in 1..Len(s) : s[k] = 60 THEN s ELSE << >>

\* C33: save-position suppression never influences parsing or colour: at
\* every step the parser state, the colour and the colour tags written are
\* those of a converter that agrees on parser and colour and has the
\* suppression flag off (or any other flag, column and output), so over a
\* whole input they are those of a run that ignores the flag; the steps
\* outside the state machine leave parser and colour alone.  A colour set
\* inside a suppressed region has its tag written at once and is in force
\* after the region.
C33_SuppressionIndependent ==
  [][ /\ UnitStep
           => /\ TagsOf(Appended(conv, conv'))
                   = ColourTags(conv.background, conv.foreground,
                                conv'.background, conv'.foreground)
              /\ \A g \in Ghosts(conv) :
                   LET h == ProcessUnit(g, options, Unit)
                   IN  /\ Control(h) = Control(conv')
                       /\ TagsOf(Appended(g, h)) = TagsOf(Appended(conv, conv'))
      /\ ~UnitStep => Control(conv') = Control(conv) ]_vars

\* ESC[s ESC[32m ESC[u B has been converted: the green tag was written inside
\* the region and B is green
C33_Witness ==
  /\ Done /\ options = DefaultOptions
  /\ input = Csi(<< >>, 115) \o Sgr(<< 51, 50 >>) \o Csi(<< >>, 117) \o << 66 >>
  /\ conv.background = 0 /\ conv.foreground = 2
  /\ conv.output = PreOpenText \o Open07 \o Close07 \o Tag(48, 50) \o << 66 >>
                     \o CloseTagHead \o << 48, 50, 62 >> \o PreCloseText

\* the step processes a unit in Escape state, in Csi state
EscapeUnitStep == UnitStep /\ conv.parseState = "Escape"
CsiUnitStep == UnitStep /\ conv.parseState = "Csi"

\* the number of spaces in s
SpaceCount(s) == Cardinality({ k \in 1..Len(s) : s[k] = 32 })

\* what a dispatched command may write: nothing, the tags of its colour
\* change, or spaces and line feeds
DispatchWrites ==
  LET w == Appended(conv, conv')
  IN  \/ w = ColourTags(conv.background, conv.foreground,
                        conv'.background, conv'.foreground)
      \/ /\ Unit \in { 67, 74 } /\ w # << >>
         /\ \A k \in 1..Len(w) : w[k] \in { 32, LF }

\* C34: escape and CSI sequences end back in Normal and never write their
\* own bytes.  In Escape state `[` enters Csi with an empty parameter
\* buffer, `7` and `8` switch suppression on and off and return to Normal,
\* any other byte returns to Normal and changes nothing else.  In Csi state
\* digits and `;` are appended to the buffer and change nothing else; a byte
\* in 0x40-0x7E returns to Normal after one dispatch on the accumulated
\* parameters (CSI C writes max(1, n) spaces, not twice as many; SGR 7
\* exchanges the colours once; s and u switch suppression); any other byte
\* returns to Normal and changes nothing else: no output, no colour, no
\* suppression, no line-has-escape flag.
C34_SequencesEnd ==
  [][ /\ (EscapeUnitStep /\ Unit = 91)
           => conv' = [conv EXCEPT !.parseState = "Csi", !.csiParams = << >>]
      /\ (EscapeUnitStep /\ Unit \in { 55, 56 })
           => /\ conv'.parseState = "Normal"
              /\ conv'.savePositionActive = (Unit = 55)
              /\ conv'.output = conv.output /\ SameColour
      /\ (EscapeUnitStep /\ Unit \notin { 91, 55, 56 })
           => conv' = [conv EXCEPT !.parseState = "Normal"]
      /\ (CsiUnitStep /\ Unit \in (48..57) \cup { 59 })
           => conv' = [conv EXCEPT !.csiParams = Append(@, Unit)]
      /\ (CsiUnitStep /\ Unit \in 64..126)
           => /\ conv'.parseState = "Normal"
              /\ StartsWith(conv'.output, conv.output)
              /\ DispatchWrites
              /\ (Unit = 67 /\ ~conv.savePositionActive)
                   => SpaceCount(Appended(conv, conv'))
                        = (IF FirstParameter >= 1 THEN FirstParameter ELSE 1)
              /\ (Unit = 109 /\ Parameters = << 55 >>)
                   => /\ conv'.foreground = conv.background
                      /\ conv'.background = conv.foreground
              /\ Unit = 115 => conv'.savePositionActive
              /\ Unit = 117 => ~conv'.savePositionActive
      /\ (CsiUnitStep /\ Unit \notin (48..57) \cup { 59 } \cup (64..126))
           => conv' = [conv EXCEPT !.parseState = "Normal"] ]_vars

\* ESC[1! and A have been converted: the sequence was given up at `!`, which
\* is not in the output, and A is written as text
C34_Witness ==
  /\ Done /\ options = DefaultOptions /\ input = << ESC, 91, 49, 33, 65 >>
  /\ conv.parseState = "Normal" /\ ~conv.lineHasAnsi
  /\ conv.output = PreOpenText \o Open07 \o << 65 >> \o Close07 \o PreCloseText

\* the COMNT block found in the input: the 1-based place of the last `COMNT`
\* that lies wholly within the window before the record
ComntText == << 67, 79, 77, 78, 84 >>
ComntPlaces ==
  { p \in 1..(MarkerPlace - 5) :
      p >= MarkerPlace - ComntWindow /\ MatchAt(input, ComntText, p) }
HasComntBlock == ComntPlaces # {}
ComntPlace == CHOOSE p \in ComntPlaces : \A q \in ComntPlaces : q <= p

\* the earliest of the first SUB, the COMNT marker and the SAUCE marker
ContentStop ==
  LET places == (IF HasSub THEN { FirstSub } ELSE {})
                  \cup (IF HasMarker THEN { MarkerPlace } ELSE {})
                  \cup (IF HasMarker /\ HasComntBlock THEN { ComntPlace } ELSE {})
  IN  IF places = {} THEN Len(input) + 1
      ELSE CHOOSE p \in places : \A q \in places : p <= q

\* C35: the content processed by the state machine before the trailer ends
\* at the earliest of the first SUB byte, the COMNT marker and the SAUCE
\* marker, so no byte of the COMNT block or of the 128-byte SAUCE record is
\* ever processed as ordinary content, wherever the first SUB lies relative
\* to the markers.
C35_ContentBound ==
  [][ /\ (UnitStep /\ pc = "content") => i + 1 < ContentStop
      /\ (UnitStep /\ HasMarker) => (i + 1 < MarkerPlace \/ i + 1 >= TailPlace)
      /\ (UnitStep /\ HasMarker /\ HasComntBlock) =>
           (i + 1 < ComntPlace \/ i + 1 >= TailPlace) ]_vars

\* the input holds a usable record: 128 units from the start of the marker
UsableRecord == HasMarker /\ MarkerPlace + 127 <= Len(input)

\* C36: when the input has no usable SAUCE record - no `SAUCE00` marker, or
\* fewer than 128 units from its start - and no SUB byte, no metadata is
\* emitted and every input unit is processed as ordinary content, the units
\* of the marker and everything after it included.
C36_NoUsableRecord ==
  [][ (~HasSub /\ ~UsableRecord) =>
        /\ pc' \notin { "sauceout", "tail" }
        /\ (pc # "close" /\ pc' = "close") => i' = Len(input)
        /\ (UnitStep /\ i' = Len(input)) => pc' = "close" ]_vars

\* every `<ans-` and `</ans-` of s is followed by two lowercase hex digits
\* and `>`
TagNamesHex(s) ==
  \A p \in 1..Len(s) :
    /\ MatchAt(s, TagHead, p) => OpenTagAt(s, p)
    /\ MatchAt(s, CloseTagHead, p) => CloseTagAt(s, p)

GlyphStep ==
  UnitStep /\ LiteralUnit /\ Unit # LF /\ ~conv.savePositionActive

\* the step appended text (no tag) that does not end with a line feed
TextAppended ==
  LET w == Appended(conv, conv')
  IN  StartsWith(conv'.output, conv.output) /\ w # << >> /\ TagsOf(w) = << >>
        /\ w[Len(w)] # LF

\* C38: a soft wrap resets the column counter but not the line-has-escape
\* flag.  On a line that has seen an escape a character processed with the
\* column counter at 80 is written after an injected line feed, the counter
\* is then 1 and the flag still set; with the counter below 80 it is written
\* with no line feed and the counter grows by one: the line feed comes before
\* the 81st, 161st, ... character the counter has counted, and an SGR
\* sequence followed by 165 characters gives lines of 80, 80 and 5
\* characters.  Immediately after any non-newline character is emitted with
\* the flag set (from the input, a broken pipe code, CSI C or the SAUCE
\* block) the column counter is between 1 and 80.
C38_WrapKeepsFlag ==
  [][ /\ (GlyphStep /\ conv.lineHasAnsi /\ conv.currentColumn >= 80)
           => /\ Len(conv'.output) >= Len(conv.output) + 2
              /\ StartsWith(conv'.output, conv.output \o << LF >>)
              /\ conv'.output[Len(conv.output) + 2] # LF
              /\ conv'.currentColumn = 1 /\ conv'.lineHasAnsi
      /\ (GlyphStep /\ conv.lineHasAnsi /\ conv.currentColumn < 80)
           => /\ conv'.output[Len(conv.output) + 1] # LF
              /\ conv'.currentColumn = conv.currentColumn + 1 /\ conv'.lineHasAnsi
      /\ (TextAppended /\ conv'.lineHasAnsi) => conv'.currentColumn \in 1..80
      /\ (pc' = "done" /\ input = Sgr(<< >>) \o Fill(165))
           => conv'.output = PreOpenText \o Open07 \o Fill(80) \o << LF >> \o Fill(80)
                               \o << LF >> \o Fill(5) \o Close07 \o PreCloseText ]_vars

\* ESC[m and 165 letters have been converted: both soft wraps were made, the
\* flag is still set and five letters stand on the last line
C38_Witness ==
  /\ Done /\ options = DefaultOptions
  /\ input = Sgr(<< >>) \o Fill(165)
  /\ conv.lineHasAnsi /\ conv.currentColumn = 5
  /\ Cardinality(LineFeeds(conv.output)) = 2
  /\ EndsWith(conv.output, << 88, LF >> \o Fill(5) \o Close07 \o PreCloseText)

\* the steps between the content and the tail: the record parsed and its
\* lines emitted, the test for a tail
BetweenContentAndTail == pc \in { "sauce", "sauceout", "tailcheck" }

\* C39: save-position suppression is switched off only by CSI u or ESC 8: no
\* line feed, end of content, SAUCE boundary or start of the tail clears it.
\* When the content ends with suppression active the forced line feeds and
\* every SAUCE line are discarded, and the text of the tail stays hidden
\* until a CSI u or ESC 8 of the tail; parser state and colour are carried
\* unchanged from the content into the tail.
C39_SuppressionCarries ==
  [][ /\ (conv.savePositionActive /\ ~conv'.savePositionActive)
           => UnitStep /\ RestoreUnit
      /\ BetweenContentAndTail
           => /\ Control(conv') = Control(conv)
              /\ conv'.savePositionActive = conv.savePositionActive
              /\ conv.savePositionActive => conv' = conv
      /\ (UnitStep /\ pc = "tail" /\ conv.savePositionActive
            /\ (LiteralUnit \/ FallthroughUnit))
           => conv'.output = conv.output
      /\ (pc' = "done" /\ options = DefaultOptions
            /\ input = Sgr(<< 51, 49 >>) \o << 65, ESC, SUB >>
                         \o createSauceRecord(TitleSauce) \o << 91, 51, 50, 109, 84 >>)
           => conv'.output
                = PreOpenText \o Open07 \o Close07 \o Tag(48, 52)
                    \o << 65, LF, 84, 105, 116, 108, 101, 58, 32, 84, 105, 116, 108, 101, LF, LF >>
                    \o CloseTagHead \o << 48, 52, 62 >> \o Tag(48, 50) \o << 84 >>
                    \o CloseTagHead \o << 48, 50, 62 >> \o PreCloseText ]_vars

\* A ESC[s B, a SUB, a record and T ESC[u V have been converted: B, the
\* record's lines, both forced line feeds and T are hidden
C39_Witness ==
  /\ Done /\ options = DefaultOptions
  /\ input = << 65 >> \o Csi(<< >>, 115) \o << 66, SUB >> \o createSauceRecord(TitleSauce)
               \o << 84 >> \o Csi(<< >>, 117) \o << 86 >>
  /\ sauceOutput # << >> /\ ~conv.savePositionActive
  /\ conv.output = PreOpenText \o Open07 \o << 65, 86 >> \o Close07 \o PreCloseText

\* the options of the call with the other input mode
OtherMode == [options EXCEPT !.utf8Input = ~@]

\* ansiToHtml for an input with no SUB and no record: the opening tags, the
\* units from the k-th on, the closing tags
RECURSIVE UnitsFrom(_, _, _)
UnitsFrom(c, opts, k) ==
  IF k > Len(input) THEN c
  ELSE UnitsFrom(ProcessUnit(c, opts, input[k]), opts, k + 1)
ReturnedUnder(opts) ==
  closeTag(UnitsFrom(openTag([NewConverter EXCEPT !.output = PreOpen]), opts, 1)).output
    \o PreClose

\* the code-page glyphs of Ctrl-A, 0xDA and DEL: U+263A, U+250C, U+2302
Glyph437(u) == CASE u = 1 -> 9786 [] u = 218 -> 9484 [] u = 127 -> 8962

\* C40: CP437 mode and UTF-8 mode are the same state machine except for high
\* characters.  A unit below 0x7F takes the converter to the same state in
\* both modes, whatever the dialect options, so an input whose units are all
\* below 0x7F returns the same output with utf8Input false and true.  The
\* modes differ only on units >= 0x7F, which CP437 mode maps through the
\* code-page table and UTF-8 mode emits unchanged; units below 0x20 (other
\* than ESC, LF, CR and an enabled Ctrl-A) are mapped through the table in
\* both modes.
C40_ModesAgree ==
  [][ /\ (UnitStep /\ Unit < 127) => conv' = ProcessUnit(conv, OtherMode, Unit)
      /\ (pc' = "done" /\ ~HasSub /\ ~HasMarker /\ \A k \in 1..Len(input) : input[k] < 127)
           => /\ conv'.output = ReturnedUnder(OtherMode)
              /\ conv'.output = ReturnedUnder(options)
      /\ (UnitStep /\ LiteralUnit /\ ~conv.savePositionActive /\ Unit \in { 127, 218 })
           => conv'.output[Len(conv'.output)]
                = (IF options.utf8Input THEN Unit ELSE Glyph437(Unit))
      /\ (UnitStep /\ LiteralUnit /\ ~conv.savePositionActive /\ Unit = 1)
           => conv'.output[Len(conv'.output)] = Glyph437(1) ]_vars

\* Ctrl-A and 0xDA have been converted in UTF-8 mode with Ctrl-A codes off:
\* the control character is mapped to its glyph, the high unit is unchanged
C40_Witness ==
  /\ Done /\ options.utf8Input /\ ~options.synchronetCtrlA
  /\ input = << CTRL_A, 218 >>
  /\ conv.output = PreOpenText \o Open07 \o << 9786, 218 >> \o Close07 \o PreCloseText

====
